---- MODULE Spec2Model ----
(***************************************************************************)
(* render/v1 plugins of ref-hip-chart-defined-plugins: one invocation of   *)
(* HelmPluginMain of gotemplate-render, sourcefiles-modifier,              *)
(* test-processor, echo-render and globally-installed-fallback, the JSON   *)
(* envelope codec, the sequential hand-off of modifiedSourceFiles to the   *)
(* next plugin, and repeated invocations of one plugin instance.           *)
(*                                                                         *)
(* Strings that the code inspects (file names, rendered text) are          *)
(* sequences of one-character strings, so that prefix, suffix, slicing and *)
(* trimming are computed as the Go code computes them.                     *)
(***************************************************************************)
EXTENDS Integers, Sequences, FiniteSets, TLC

VARIABLES
    plugin,      \* the plugin whose HelmPluginMain is running
    input,       \* the bytes pdk.Input() returns: [kind, sourceFiles]
    pc,          \* position in HelmPluginMain: start, pass1, pass2, loop, done, trap
    idx,         \* 1-based position of the running loop in input.sourceFiles
    output,      \* the OutputMessageRenderV1 being built
    masterTmpl,  \* gotemplate-render: the shared template namespace
    actions,     \* sourcefiles-modifier: actions; test-processor: fileList
    emitted,     \* the messages written with pdk.Output, in order
    status,      \* <<>> until HelmPluginMain returns, then <<code>>
    upstream     \* <<>>, or the finished invocation of the previous plugin

vars == <<plugin, input, pc, idx, output, masterTmpl, actions, emitted, status, upstream>>

(***************************************************************************)
(* Bounds of the model.                                                    *)
(***************************************************************************)
MaxFiles == 3

MaxChainFiles == 4

MaxCodecFiles == 2

(***************************************************************************)
(* strings / path helpers, on sequences of characters                      *)
(***************************************************************************)
HasPrefix(s, p) == Len(s) >= Len(p) /\ SubSeq(s, 1, Len(p)) = p

HasSuffix(s, p) == Len(s) >= Len(p) /\ SubSeq(s, Len(s) - Len(p) + 1, Len(s)) = p

TrimSuffix(s, p) == IF HasSuffix(s, p) THEN SubSeq(s, 1, Len(s) - Len(p)) ELSE s

IsSpace(c) == c \in {" ", "\n", "\t", "\r"}

RECURSIVE TrimLeft(_)
TrimLeft(s) ==
    IF s # <<>> /\ IsSpace(Head(s)) THEN TrimLeft(Tail(s)) ELSE s

RECURSIVE TrimRight(_)
TrimRight(s) ==
    IF s # <<>> /\ IsSpace(s[Len(s)]) THEN TrimRight(SubSeq(s, 1, Len(s) - 1)) ELSE s

TrimSpace(s) == TrimRight(TrimLeft(s))

RECURSIVE StripSlashes(_)
StripSlashes(s) ==
    IF s # <<>> /\ s[Len(s)] = "/" THEN StripSlashes(SubSeq(s, 1, Len(s) - 1)) ELSE s

RECURSIVE AfterLastSlash(_)
AfterLastSlash(s) ==
    IF \E k \in 1..Len(s) : s[k] = "/"
    THEN AfterLastSlash(Tail(s))
    ELSE s

\* path.Base: the last element of the path, trailing slashes removed.
Base(p) ==
    IF p = <<>> THEN <<".">>
    ELSE LET q == StripSlashes(p)
         IN  IF q = <<>> THEN <<"/">> ELSE AfterLastSlash(q)

Ext_yaml == <<".", "y", "a", "m", "l">>
Ext_yml  == <<".", "y", "m", "l">>
Ext_tpl  == <<".", "t", "p", "l">>
Ext_txt  == <<".", "t", "x", "t">>
Ext_test == <<".", "t", "e", "s", "t">>
Ext_renamed == <<".", "r", "e", "n", "a", "m", "e", "d">>
Ext_echo == <<".", "e", "c", "h", "o">>

\* A Go map as a function; m[k] = v added or overwritten.
EmptyMap == <<>>

\* Mutant: an existing key keeps its value.
MapPut_keepsFirst(m, k, v) == [x \in (DOMAIN m) \cup {k} |-> IF x \in DOMAIN m THEN m[x] ELSE v]

MapPut(m, k, v) == [x \in (DOMAIN m) \cup {k} |-> IF x = k THEN v ELSE m[x]]

\* A Go slice value: the nil slice and an empty non-nil slice differ.
NilSlice == [isNil |-> TRUE, items |-> <<>>]

MakeSlice == [isNil |-> FALSE, items |-> <<>>]

SliceAppend(s, x) == [isNil |-> FALSE, items |-> Append(s.items, x)]

(***************************************************************************)
(* Message codec: encoding/json on InputMessageRenderV1 and                *)
(* OutputMessageRenderV1.                                                  *)
(***************************************************************************)
\* The input bytes are empty, cut short, or a JSON envelope.
RawKinds == {"empty", "truncated", "json"}

\* json.Unmarshal(inputBytes, &input): an error unless the bytes are JSON.
Decode(raw) ==
    [err |-> raw.kind # "json",
     sourceFiles |-> IF raw.kind = "json" THEN raw.sourceFiles ELSE <<>>]

\* The fields json.Marshal writes: renderedFiles has no omitempty tag, the
\* other two have it and are left out when their length is 0.
EncodedFields(out) ==
    {"renderedFiles"}
      \cup (IF Len(out.modifiedSourceFiles.items) > 0 THEN {"modifiedSourceFiles"} ELSE {})
      \cup (IF Len(out.errors) > 0 THEN {"errors"} ELSE {})

Encode(out) ==
    [f \in EncodedFields(out) |->
        CASE f = "renderedFiles" -> out.renderedFiles
          [] f = "modifiedSourceFiles" -> out.modifiedSourceFiles.items
          [] f = "errors" -> out.errors]

\* output := OutputMessageRenderV1{RenderedFiles: make(map[string]string)}
NewOutput ==
    [renderedFiles |-> EmptyMap, modifiedSourceFiles |-> NilSlice, errors |-> <<>>]

ErrMsg(kind, name) == [kind |-> kind, file |-> name]

NoName == <<>>

(***************************************************************************)
(* text/template as gotemplate-render uses it.  A template source is       *)
(*   [syntaxOK, defines : Seq([name, body]), root : body]                  *)
(* and a body is a sequence of nodes: text, {{template "n"}}, and calls of *)
(* the functions of funcMap.                                               *)
(***************************************************************************)
Text(s) == [k |-> "text", s |-> s]

TemplateCall(n) == [k |-> "template", n |-> n]

IncludeCall(n) == [k |-> "include", n |-> n]

TplCall(raw) == [k |-> "tpl", raw |-> raw]

RequiredCall(val) == [k |-> "required", val |-> val]

NilVal == [t |-> "nil"]

StrVal(s) == [t |-> "str", v |-> s]

NumVal(n) == [t |-> "num", n |-> n]

BoolVal(b) == [t |-> "bool", b |-> b]

ListVal(items) == [t |-> "list", items |-> items]

MapVal(m) == [t |-> "map", m |-> m]

\* A []string and a map[string]string, as split and .Files.AsConfig return.
StrListVal(strs) == [t |-> "strlist", strs |-> strs]

StrMapVal(sm) == [t |-> "strmap", sm |-> sm]

\* funcMap "empty": the type switch knows string, []interface{} and
\* map[string]interface{}; every other type is not empty.
FuncEmpty(val) ==
    CASE val.t = "nil" -> TRUE
      [] val.t = "str" -> val.v = <<>>
      [] val.t = "list" -> Len(val.items) = 0
      [] val.t = "map" -> DOMAIN val.m = {}
      [] OTHER -> FALSE

\* strings.Split(s, "\n")
RECURSIVE SplitLines(_)
SplitLines(s) ==
    IF \E k \in 1..Len(s) : s[k] = "\n"
    THEN LET k == CHOOSE k \in 1..Len(s) : s[k] = "\n" /\ \A m \in 1..(k - 1) : s[m] # "\n"
         IN  <<SubSeq(s, 1, k - 1)>> \o SplitLines(SubSeq(s, k + 1, Len(s)))
    ELSE <<s>>

\* strings.Join(lines, "\n")
RECURSIVE JoinLines(_)
JoinLines(lines) ==
    IF lines = <<>> THEN <<>>
    ELSE IF Len(lines) = 1 THEN lines[1]
    ELSE lines[1] \o <<"\n">> \o JoinLines(Tail(lines))

\* strings.Repeat(" ", count), for count >= 0
Repeat(count) == [j \in 1..count |-> " "]

\* Mutant: empty lines are indented as well.
IndentLines_allLines(spaces, s) ==
    JoinLines([j \in 1..Len(SplitLines(s)) |-> Repeat(spaces) \o SplitLines(s)[j]])

\* The loop shared by indent and nindent: every line that is not empty gets
\* the prefix.
IndentLines(spaces, s) ==
    LET prefix == Repeat(spaces)
        lines == SplitLines(s)
    IN  JoinLines([j \in 1..Len(lines) |->
                      IF lines[j] # <<>> THEN prefix \o lines[j] ELSE lines[j]])

\* funcMap "indent"; strings.Repeat panics on a negative count, and the
\* template engine turns the panic into an error.
FuncIndent(spaces, s) ==
    IF spaces < 0 THEN [err |-> TRUE, out |-> <<>>]
    ELSE [err |-> FALSE, out |-> IndentLines(spaces, s)]

\* funcMap "nindent"
FuncNindent(spaces, s) ==
    IF spaces < 0 THEN [err |-> TRUE, out |-> <<>>]
    ELSE [err |-> FALSE, out |-> <<"\n">> \o IndentLines(spaces, s)]

\* Mutant: numeric zero counts as empty, too.
FuncDefault_zeroIsEmpty(def, val) ==
    IF val.t = "nil" \/ (val.t = "str" /\ val.v = <<>>) \/ (val.t = "num" /\ val.n = 0)
    THEN def
    ELSE val

\* Mutant: the first argument is the one tested for emptiness.
FuncDefault_swapped(def, val) ==
    IF def.t = "nil" \/ (def.t = "str" /\ def.v = <<>>) THEN val ELSE def

\* funcMap "default": val == nil || val == "" compares the interface value,
\* so only nil and the string "" give def.
FuncDefault(def, val) ==
    IF val.t = "nil" \/ (val.t = "str" /\ val.v = <<>>) THEN def ELSE val

\* parse.IsEmptyTree: only text nodes that are all whitespace.
IsEmptyTree(body) ==
    \A j \in 1..Len(body) : body[j].k = "text" /\ TrimSpace(body[j].s) = <<>>

\* parse.Tree.add over the definitions of one Parse call, then the top-level
\* tree: a second non-empty definition of a name is a parse error.
RECURSIVE AddTrees(_, _)
AddTrees(treeSet, defs) ==
    IF defs = <<>> THEN [err |-> FALSE, trees |-> treeSet]
    ELSE LET d == Head(defs)
         IN  IF d.name \notin DOMAIN treeSet \/ IsEmptyTree(treeSet[d.name])
             THEN AddTrees(MapPut(treeSet, d.name, d.body), Tail(defs))
             ELSE IF ~IsEmptyTree(d.body)
                  THEN [err |-> TRUE, trees |-> treeSet]
                  ELSE AddTrees(treeSet, Tail(defs))

ParseTrees(name, src) ==
    IF ~src.syntaxOK THEN [err |-> TRUE, trees |-> EmptyMap]
    ELSE AddTrees(EmptyMap, src.defines \o <<[name |-> name, body |-> src.root]>>)

\* Mutant: the first definition of a name is kept, later ones are ignored.
Associate_firstWins(ns, trees) ==
    [n \in (DOMAIN ns) \cup (DOMAIN trees) |-> IF n \in DOMAIN ns THEN ns[n] ELSE trees[n]]

\* Template.associate: a tree replaces the template of that name, except
\* that an empty tree never replaces an existing template.
Associate(ns, trees) ==
    [n \in (DOMAIN ns) \cup (DOMAIN trees) |->
        IF n \notin DOMAIN trees THEN ns[n]
        ELSE IF n \in DOMAIN ns /\ IsEmptyTree(trees[n]) THEN ns[n]
        ELSE trees[n]]

\* t.New(name).Parse(text): on a parse error nothing is added.
ParseInto(ns, name, src) ==
    LET pt == ParseTrees(name, src)
    IN  IF pt.err THEN [err |-> TRUE, ns |-> ns]
        ELSE [err |-> FALSE, ns |-> Associate(ns, pt.trees)]

\* Template.Clone: a copy of the namespace; text/template never fails here.
Clone(ns) == [err |-> FALSE, ns |-> ns]

MaxExecDepth == 3

\* funcMap "include" and "tpl": placeholders that always fail.
FuncInclude(name, data) == [err |-> TRUE, out |-> <<>>]

FuncTpl(raw, data) == [err |-> TRUE, out |-> <<>>]

\* fmt.Errorf(format) with no operands: "%%" is a percent sign, "%" before
\* any other character is a verb without operand, "%" at the end has no verb.
RECURSIVE Errorf(_)
Errorf(format) ==
    IF format = <<>> THEN <<>>
    ELSE IF Head(format) # "%" THEN <<Head(format)>> \o Errorf(Tail(format))
    ELSE IF Len(format) = 1 THEN <<"%", "!", "(", "N", "O", "V", "E", "R", "B", ")">>
    ELSE IF format[2] = "%" THEN <<"%">> \o Errorf(Tail(Tail(format)))
    ELSE <<"%", "!", format[2], "(", "M", "I", "S", "S", "I", "N", "G", ")">>
            \o Errorf(Tail(Tail(format)))

Digits == <<"0", "1", "2", "3", "4", "5", "6", "7", "8", "9">>

\* The text the template engine prints for a value (fmt's %v).
Sprint(val) ==
    CASE val.t = "str" -> val.v
      [] val.t = "num" -> <<Digits[(val.n % 10) + 1]>>
      [] val.t = "bool" -> IF val.b THEN <<"t", "r", "u", "e">> ELSE <<"f", "a", "l", "s", "e">>
      [] val.t = "list" -> <<"[", "]">>
      [] val.t = "map" -> <<"m", "a", "p", "[", "]">>
      [] OTHER -> <<>>

\* funcMap "list": the arguments as a []interface{}.
FuncList(items) == ListVal(items)

\* Mutant: a key that is no string is kept under its printed form.
DictStep_printsKeys(vals, result) ==
    IF Len(vals) < 2 THEN result
    ELSE MapPut(result, Sprint(vals[1]), vals[2])

\* One step of the loop of dict: for i := 0; i < len(vals)-1; i += 2.
DictStep(vals, result) ==
    IF Len(vals) < 2 THEN result
    ELSE IF vals[1].t = "str" THEN MapPut(result, vals[1].v, vals[2])
    ELSE result

RECURSIVE DictFrom(_, _)
DictFrom(vals, result) ==
    IF Len(vals) < 2 THEN result
    ELSE DictFrom(Tail(Tail(vals)), DictStep(vals, result))

\* funcMap "dict"
FuncDict(vals) == MapVal(DictFrom(vals, EmptyMap))

\* encoding/json of a scalar: null, a quoted string, a number, true or false.
JsonScalar(val) ==
    CASE val.t = "nil" -> <<"n", "u", "l", "l">>
      [] val.t = "str" -> <<"\"">> \o val.v \o <<"\"">>
      [] OTHER -> Sprint(val)

\* The elements of a sequence, each on a line of its own, indented.
RECURSIVE JsonElements(_)
JsonElements(items) ==
    IF items = <<>> THEN <<>>
    ELSE <<" ", " ">> \o JsonScalar(Head(items))
            \o (IF Len(items) > 1 THEN <<",", "\n">> ELSE <<>>) \o JsonElements(Tail(items))

\* json.MarshalIndent(v, "", "  ") of a scalar, of a sequence of scalars and
\* of a mapping with at most one key (which needs no sorting of keys).
MarshalIndent(val) ==
    CASE val.t = "list" ->
            IF val.items = <<>> THEN <<"[", "]">>
            ELSE <<"[", "\n">> \o JsonElements(val.items) \o <<"\n", "]">>
      [] val.t = "map" ->
            IF DOMAIN val.m = {} THEN <<"{", "}">>
            ELSE LET k == CHOOSE k \in DOMAIN val.m : TRUE
                 IN  <<"{", "\n", " ", " ", "\"">> \o k \o <<"\"", ":", " ">>
                        \o JsonScalar(val.m[k]) \o <<"\n", "}">>
      [] OTHER -> JsonScalar(val)

\* funcMap "toYaml": json.MarshalIndent stands in for a YAML encoder.
FuncToYaml(v) == MarshalIndent(v)

\* funcMap "toPrettyJson"
FuncToPrettyJson(v) == MarshalIndent(v)

\* funcMap "required": return nil, fmt.Errorf(msg) or return val, nil.
FuncRequired(msg, val) ==
    IF val.t = "nil" \/ (val.t = "str" /\ val.v = <<>>)
    THEN [err |-> TRUE, out |-> <<>>, val |-> NilVal, msg |-> Errorf(msg)]
    ELSE [err |-> FALSE, out |-> Sprint(val), val |-> val, msg |-> <<>>]

\* Template.Execute of a body against the namespace ns.
RECURSIVE ExecNodes(_, _, _)
ExecNode(ns, node, depth) ==
    CASE node.k = "text" -> [err |-> FALSE, out |-> node.s]
      [] node.k = "template" ->
            IF node.n \notin DOMAIN ns \/ depth >= MaxExecDepth
            THEN [err |-> TRUE, out |-> <<>>]
            ELSE ExecNodes(ns, ns[node.n], depth + 1)
      [] node.k = "include" -> FuncInclude(node.n, "dot")
      [] node.k = "tpl" -> FuncTpl(node.raw, "dot")
      [] node.k = "required" -> FuncRequired(<<"m", "s", "g">>, node.val)

ExecNodes(ns, nodes, depth) ==
    IF nodes = <<>> THEN [err |-> FALSE, out |-> <<>>]
    ELSE LET h == ExecNode(ns, Head(nodes), depth)
         IN  IF h.err THEN h
             ELSE LET r == ExecNodes(ns, Tail(nodes), depth)
                  IN  IF r.err THEN r ELSE [err |-> FALSE, out |-> h.out \o r.out]

Execute(ns, root) == ExecNodes(ns, root, 0)

(***************************************************************************)
(* gotemplate-render                                                       *)
(***************************************************************************)
IsPartial(file) == HasPrefix(Base(file.name), <<"_">>)

\* Mutant: every file that is no partial file is rendered.
IsTemplateFile_anyExtension(file) == Len(file.name) >= 0

IsTemplateFile(file) ==
    \/ HasSuffix(file.name, Ext_yaml)
    \/ HasSuffix(file.name, Ext_yml)
    \/ HasSuffix(file.name, Ext_tpl)
    \/ HasSuffix(file.name, Ext_txt)

\* Mutant: a partial file that fails to parse empties the namespace.
RegisterPartial_resetsOnError(tmpl, out, file) ==
    IF IsPartial(file)
    THEN LET r == ParseInto(tmpl, file.name, file.data)
         IN  IF r.err
             THEN [tmpl |-> EmptyMap,
                   out |-> [out EXCEPT !.errors = Append(@, ErrMsg("parse error", file.name))]]
             ELSE [tmpl |-> r.ns, out |-> out]
    ELSE [tmpl |-> tmpl, out |-> out]

\* One iteration of the first loop over input.SourceFiles.
RegisterPartial(tmpl, out, file) ==
    IF IsPartial(file)
    THEN LET r == ParseInto(tmpl, file.name, file.data)
         IN  [tmpl |-> r.ns,
              out |-> IF r.err
                      THEN [out EXCEPT !.errors = Append(@, ErrMsg("parse error", file.name))]
                      ELSE out]
    ELSE [tmpl |-> tmpl, out |-> out]

\* Mutant: rendered text is stored without the blank check.
RenderPrimary_keepsBlank(tmpl, out, file) ==
    IF IsPartial(file) \/ ~IsTemplateFile(file)
    THEN [tmpl |-> tmpl, out |-> out]
    ELSE LET p == ParseInto(tmpl, file.name, file.data)
             x == Execute(p.ns, file.data.root)
         IN  IF p.err \/ x.err
             THEN [tmpl |-> tmpl,
                   out |-> [out EXCEPT !.errors =
                               Append(@, ErrMsg(IF p.err THEN "parse error" ELSE "render error",
                                                file.name))]]
             ELSE [tmpl |-> tmpl,
                   out |-> [out EXCEPT !.renderedFiles = MapPut(@, file.name, x.out)]]

\* Mutant: a failing file discards what was rendered so far.
RenderPrimary_blanksOnError(tmpl, out, file) ==
    IF IsPartial(file) \/ ~IsTemplateFile(file)
    THEN [tmpl |-> tmpl, out |-> out]
    ELSE LET p == ParseInto(tmpl, file.name, file.data)
             x == Execute(p.ns, file.data.root)
         IN  IF p.err \/ x.err
             THEN [tmpl |-> tmpl,
                   out |-> [out EXCEPT !.errors = Append(@, ErrMsg("render error", file.name)),
                                       !.renderedFiles = EmptyMap]]
             ELSE IF TrimSpace(x.out) = <<>> THEN [tmpl |-> tmpl, out |-> out]
             ELSE [tmpl |-> tmpl,
                   out |-> [out EXCEPT !.renderedFiles = MapPut(@, file.name, x.out)]]

\* Mutant: a primary file is parsed into the shared namespace, not a clone.
RenderPrimary_sharesNamespace(tmpl, out, file) ==
    IF IsPartial(file) \/ ~IsTemplateFile(file)
    THEN [tmpl |-> tmpl, out |-> out]
    ELSE LET p == ParseInto(tmpl, file.name, file.data)
             x == Execute(p.ns, file.data.root)
             fail(kind) == [tmpl |-> p.ns,
                            out |-> [out EXCEPT !.errors = Append(@, ErrMsg(kind, file.name))]]
         IN  IF p.err THEN fail("parse error")
             ELSE IF x.err THEN fail("render error")
             ELSE IF TrimSpace(x.out) = <<>> THEN [tmpl |-> p.ns, out |-> out]
             ELSE [tmpl |-> p.ns,
                   out |-> [out EXCEPT !.renderedFiles = MapPut(@, file.name, x.out)]]

\* Mutant: the error of a failing primary file is put first.
RenderPrimary_prependsError(tmpl, out, file) ==
    IF IsPartial(file) \/ ~IsTemplateFile(file)
    THEN [tmpl |-> tmpl, out |-> out]
    ELSE LET p == ParseInto(tmpl, file.name, file.data)
             x == Execute(p.ns, file.data.root)
             fail(kind) == [tmpl |-> tmpl,
                            out |-> [out EXCEPT !.errors = <<ErrMsg(kind, file.name)>> \o @]]
         IN  IF p.err THEN fail("parse error")
             ELSE IF x.err THEN fail("render error")
             ELSE IF TrimSpace(x.out) = <<>> THEN [tmpl |-> tmpl, out |-> out]
             ELSE [tmpl |-> tmpl,
                   out |-> [out EXCEPT !.renderedFiles = MapPut(@, file.name, x.out)]]

\* One iteration of the second loop over input.SourceFiles.
RenderPrimary(tmpl, out, file) ==
    IF IsPartial(file) \/ ~IsTemplateFile(file)
    THEN [tmpl |-> tmpl, out |-> out]
    ELSE LET c == Clone(tmpl)
             p == ParseInto(c.ns, file.name, file.data)
             x == Execute(p.ns, file.data.root)
             fail(kind) == [tmpl |-> tmpl,
                            out |-> [out EXCEPT !.errors = Append(@, ErrMsg(kind, file.name))]]
         IN  IF c.err THEN fail("clone error")
             ELSE IF p.err THEN fail("parse error")
             ELSE IF x.err THEN fail("render error")
             ELSE IF TrimSpace(x.out) = <<>> THEN [tmpl |-> tmpl, out |-> out]
             ELSE [tmpl |-> tmpl,
                   out |-> [out EXCEPT !.renderedFiles = MapPut(@, file.name, x.out)]]

\* Mutant: the error envelope is written but success is returned.
outputError_returns0(msg) ==
    /\ emitted' = Append(emitted, Encode([NewOutput EXCEPT !.errors = <<msg>>]))
    /\ status' = <<0>>
    /\ pc' = "done"

\* The first loop as a whole, from the state (tmpl, out), over files.
RECURSIVE Pass1From(_, _, _)
Pass1From(tmpl, out, files) ==
    IF files = <<>> THEN [tmpl |-> tmpl, out |-> out]
    ELSE LET r == RegisterPartial(tmpl, out, Head(files))
         IN  Pass1From(r.tmpl, r.out, Tail(files))

\* The second loop as a whole.
RECURSIVE Pass2From(_, _, _)
Pass2From(tmpl, out, files) ==
    IF files = <<>> THEN [tmpl |-> tmpl, out |-> out]
    ELSE LET r == RenderPrimary(tmpl, out, Head(files))
         IN  Pass2From(r.tmpl, r.out, Tail(files))

\* The output message HelmPluginMain builds from decoded source files.
RunGotemplate(sf) ==
    LET a == Pass1From(EmptyMap, NewOutput, sf)
    IN  Pass2From(a.tmpl, a.out, sf).out

\* outputError(msg): the error envelope is written and 1 is returned.
outputError(msg) ==
    /\ emitted' = Append(emitted, Encode([NewOutput EXCEPT !.errors = <<msg>>]))
    /\ status' = <<1>>
    /\ pc' = "done"

\* Mutant: accumulated per-file errors make the invocation fatal.
WriteOutput_failsOnErrors(out) ==
    /\ emitted' = Append(emitted, Encode(out))
    /\ status' = <<IF Len(out.errors) > 0 THEN 1 ELSE 0>>
    /\ pc' = "done"

\* json.Marshal(output); pdk.Output(outputBytes); return 0
WriteOutput(out) ==
    /\ emitted' = Append(emitted, Encode(out))
    /\ status' = <<0>>
    /\ pc' = "done"

\* Mutant: the namespace of the previous invocation is reused.
GtStart_keepsNamespace ==
    /\ plugin = "gotemplate-render" /\ pc = "start"
    /\ LET d == Decode(input)
       IN  IF d.err
           THEN /\ outputError(ErrMsg("failed to parse input", NoName))
                /\ UNCHANGED <<idx, output, masterTmpl, actions>>
           ELSE /\ pc' = "pass1"
                /\ idx' = 1
                /\ output' = NewOutput
                /\ UNCHANGED <<masterTmpl, actions, emitted, status>>
    /\ UNCHANGED <<plugin, input, upstream>>

GtStart ==
    /\ plugin = "gotemplate-render" /\ pc = "start"
    /\ LET d == Decode(input)
       IN  IF d.err
           THEN /\ outputError(ErrMsg("failed to parse input", NoName))
                /\ UNCHANGED <<idx, output, masterTmpl, actions>>
           ELSE /\ pc' = "pass1"
                /\ idx' = 1
                /\ output' = NewOutput
                /\ masterTmpl' = EmptyMap
                /\ UNCHANGED <<actions, emitted, status>>
    /\ UNCHANGED <<plugin, input, upstream>>

GtPass1 ==
    /\ plugin = "gotemplate-render" /\ pc = "pass1"
    /\ idx <= Len(input.sourceFiles)
    /\ LET r == RegisterPartial(masterTmpl, output, input.sourceFiles[idx])
       IN  /\ masterTmpl' = r.tmpl
           /\ output' = r.out
    /\ idx' = idx + 1
    /\ UNCHANGED <<plugin, input, pc, actions, emitted, status, upstream>>

\* Mutant: the second loop may start before the first has seen every file.
GtPass1End_early ==
    /\ plugin = "gotemplate-render" /\ pc = "pass1"
    /\ idx >= 1
    /\ pc' = "pass2"
    /\ idx' = 1
    /\ UNCHANGED <<plugin, input, output, masterTmpl, actions, emitted, status, upstream>>

GtPass1End ==
    /\ plugin = "gotemplate-render" /\ pc = "pass1"
    /\ idx > Len(input.sourceFiles)
    /\ pc' = "pass2"
    /\ idx' = 1
    /\ UNCHANGED <<plugin, input, output, masterTmpl, actions, emitted, status, upstream>>

GtPass2 ==
    /\ plugin = "gotemplate-render" /\ pc = "pass2"
    /\ idx <= Len(input.sourceFiles)
    /\ LET r == RenderPrimary(masterTmpl, output, input.sourceFiles[idx])
       IN  /\ masterTmpl' = r.tmpl
           /\ output' = r.out
    /\ idx' = idx + 1
    /\ UNCHANGED <<plugin, input, pc, actions, emitted, status, upstream>>

GtFinish ==
    /\ plugin = "gotemplate-render" /\ pc = "pass2"
    /\ idx > Len(input.sourceFiles)
    /\ WriteOutput(output)
    /\ UNCHANGED <<plugin, input, idx, output, masterTmpl, actions, upstream>>
(***************************************************************************)
(* sourcefiles-modifier                                                    *)
(***************************************************************************)
NewFileName ==
    <<"t", "e", "m", "p", "l", "a", "t", "e", "s", "/",
      "f", "i", "l", "e", "4", ".", "t", "e", "s", "t">>

NewFileContent == <<"# This file was added by sourcefiles-modifier plugin", "\n", "key: added-by-plugin-1">>

ModifiedHeader == <<"[MODIFIED BY PLUGIN 1]", "\n">>

SummaryName ==
    <<"s", "o", "u", "r", "c", "e", "f", "i", "l", "e", "s", "-", "m", "o", "d", "i", "f", "i", "e", "r",
      "-", "s", "u", "m", "m", "a", "r", "y", ".", "y", "a", "m", "l">>

SourceFile(name, data) == [name |-> name, data |-> data]

\* Mutant: the third file is passed on under its old name.
ModifyFile_noRename(out, acts, i, file) ==
    IF i = 0 THEN [out |-> out, acts |-> Append(acts, <<"REMOVED", file.name>>)]
    ELSE [out |-> [out EXCEPT !.modifiedSourceFiles =
                      SliceAppend(@, IF i = 1
                                     THEN SourceFile(file.name, ModifiedHeader \o file.data)
                                     ELSE file)],
          acts |-> Append(acts, <<"PASSED", file.name>>)]

\* Mutant: the first file is passed on like the files after the third.
ModifyFile_keepsFirst(out, acts, i, file) ==
    CASE i = 1 ->
            [out |-> [out EXCEPT !.modifiedSourceFiles =
                         SliceAppend(@, SourceFile(file.name, ModifiedHeader \o file.data))],
             acts |-> Append(acts, <<"MODIFIED", file.name>>)]
      [] i = 2 ->
            [out |-> [out EXCEPT !.modifiedSourceFiles =
                         SliceAppend(@, SourceFile(TrimSuffix(file.name, Ext_test) \o Ext_renamed,
                                                   file.data))],
             acts |-> Append(acts, <<"RENAMED", file.name>>)]
      [] OTHER ->
            [out |-> [out EXCEPT !.modifiedSourceFiles = SliceAppend(@, file)],
             acts |-> Append(acts, <<"PASSED", file.name>>)]

\* One iteration of the loop: the switch on the 0-based index i.
ModifyFile(out, acts, i, file) ==
    CASE i = 0 ->
            [out |-> out, acts |-> Append(acts, <<"REMOVED", file.name>>)]
      [] i = 1 ->
            [out |-> [out EXCEPT !.modifiedSourceFiles =
                         SliceAppend(@, SourceFile(file.name, ModifiedHeader \o file.data))],
             acts |-> Append(acts, <<"MODIFIED", file.name>>)]
      [] i = 2 ->
            LET newName == TrimSuffix(file.name, Ext_test) \o Ext_renamed
            IN  [out |-> [out EXCEPT !.modifiedSourceFiles =
                             SliceAppend(@, SourceFile(newName, file.data))],
                 acts |-> Append(acts, <<"RENAMED", file.name, newName>>)]
      [] OTHER ->
            [out |-> [out EXCEPT !.modifiedSourceFiles = SliceAppend(@, file)],
             acts |-> Append(acts, <<"PASSED", file.name>>)]

\* Mutant: the summary manifest is also handed to the next plugin.
AddFileAndSummary_feedsForward(out, acts, received) ==
    LET withNew == [out EXCEPT !.modifiedSourceFiles =
                       SliceAppend(SliceAppend(@, SourceFile(NewFileName, NewFileContent)),
                                   SourceFile(SummaryName, <<"summary">>))]
        allActs == Append(acts, <<"ADDED", NewFileName>>)
        summary == [actions |-> allActs,
                    filesReceived |-> received,
                    filesOutput |-> Len(withNew.modifiedSourceFiles.items)]
    IN  [out |-> [withNew EXCEPT !.renderedFiles = MapPut(@, SummaryName, summary)],
         acts |-> allActs]

\* After the loop: the new file is appended and the summary manifest rendered.
AddFileAndSummary(out, acts, received) ==
    LET withNew == [out EXCEPT !.modifiedSourceFiles =
                       SliceAppend(@, SourceFile(NewFileName, NewFileContent))]
        allActs == Append(acts, <<"ADDED", NewFileName>>)
        summary == [actions |-> allActs,
                    filesReceived |-> received,
                    filesOutput |-> Len(withNew.modifiedSourceFiles.items)]
    IN  [out |-> [withNew EXCEPT !.renderedFiles = MapPut(@, SummaryName, summary)],
         acts |-> allActs]

MdStart ==
    /\ plugin = "sourcefiles-modifier" /\ pc = "start"
    /\ LET d == Decode(input)
       IN  IF d.err
           THEN /\ outputError(ErrMsg("failed to parse input", NoName))
                /\ UNCHANGED <<idx, output, actions>>
           ELSE /\ pc' = "loop"
                /\ idx' = 1
                /\ output' = [NewOutput EXCEPT !.modifiedSourceFiles = MakeSlice]
                /\ actions' = <<>>
                /\ UNCHANGED <<emitted, status>>
    /\ UNCHANGED <<plugin, input, masterTmpl, upstream>>

MdLoop ==
    /\ plugin = "sourcefiles-modifier" /\ pc = "loop"
    /\ idx <= Len(input.sourceFiles)
    /\ LET r == ModifyFile(output, actions, idx - 1, input.sourceFiles[idx])
       IN  /\ output' = r.out
           /\ actions' = r.acts
    /\ idx' = idx + 1
    /\ UNCHANGED <<plugin, input, pc, masterTmpl, emitted, status, upstream>>

MdFinish ==
    /\ plugin = "sourcefiles-modifier" /\ pc = "loop"
    /\ idx > Len(input.sourceFiles)
    /\ LET r == AddFileAndSummary(output, actions, Len(input.sourceFiles))
       IN  /\ output' = r.out
           /\ actions' = r.acts
           /\ WriteOutput(r.out)
    /\ UNCHANGED <<plugin, input, idx, masterTmpl, upstream>>

(***************************************************************************)
(* test-processor                                                          *)
(***************************************************************************)
TpSummaryName ==
    <<"t", "e", "s", "t", "-", "p", "r", "o", "c", "e", "s", "s", "o", "r",
      "-", "s", "u", "m", "m", "a", "r", "y", ".", "y", "a", "m", "l">>

TemplatesPrefix == <<"t", "e", "m", "p", "l", "a", "t", "e", "s", "-">>

\* strings.ReplaceAll of one character by another.
ReplaceChar(s, old, new) == [j \in 1..Len(s) |-> IF s[j] = old THEN new ELSE s[j]]

TrimPrefix(s, p) == IF HasPrefix(s, p) THEN SubSeq(s, Len(p) + 1, Len(s)) ELSE s

sanitizeName(name) ==
    TrimPrefix(ReplaceChar(ReplaceChar(name, "/", "-"), ".", "-"), TemplatesPrefix)

\* strings.Split(content, "\n"), then every line indented and ended.
RECURSIVE indentContent(_)
indentContent(content) ==
    IF \E k \in 1..Len(content) : content[k] = "\n"
    THEN LET k == CHOOSE k \in 1..Len(content) :
                     content[k] = "\n" /\ \A m \in 1..(k - 1) : content[m] # "\n"
         IN  (<<"    ">> \o SubSeq(content, 1, k - 1) \o <<"\n">>)
                 \o indentContent(SubSeq(content, k + 1, Len(content)))
    ELSE <<"    ">> \o content \o <<"\n">>

\* One iteration of the loop of test-processor.
ProcessFile(out, list, file) ==
    LET outputName == TrimSuffix(file.name, Ext_test) \o Ext_yaml
        content == [originalFile |-> file.name,
                    name |-> sanitizeName(file.name),
                    originalContent |-> indentContent(file.data)]
    IN  [out |-> [out EXCEPT !.renderedFiles = MapPut(@, outputName, content)],
         acts |-> Append(list, file.name)]

TpSummary(out, list, received) ==
    [out EXCEPT !.renderedFiles =
        MapPut(@, TpSummaryName, [filesReceived |-> received, fileList |-> list])]

TpStart ==
    /\ plugin = "test-processor" /\ pc = "start"
    /\ LET d == Decode(input)
       IN  IF d.err
           THEN /\ outputError(ErrMsg("failed to parse input", NoName))
                /\ UNCHANGED <<idx, output, actions>>
           ELSE /\ pc' = "loop"
                /\ idx' = 1
                /\ output' = NewOutput
                /\ actions' = <<>>
                /\ UNCHANGED <<emitted, status>>
    /\ UNCHANGED <<plugin, input, masterTmpl, upstream>>

TpLoop ==
    /\ plugin = "test-processor" /\ pc = "loop"
    /\ idx <= Len(input.sourceFiles)
    /\ LET r == ProcessFile(output, actions, input.sourceFiles[idx])
       IN  /\ output' = r.out
           /\ actions' = r.acts
    /\ idx' = idx + 1
    /\ UNCHANGED <<plugin, input, pc, masterTmpl, emitted, status, upstream>>

TpFinish ==
    /\ plugin = "test-processor" /\ pc = "loop"
    /\ idx > Len(input.sourceFiles)
    /\ LET o == TpSummary(output, actions, Len(input.sourceFiles))
       IN  /\ output' = o
           /\ WriteOutput(o)
    /\ UNCHANGED <<plugin, input, idx, masterTmpl, actions, upstream>>

(***************************************************************************)
(* echo-render                                                             *)
(***************************************************************************)
\* sf.Name[:len(sf.Name)-5] + ".yaml": the slice expression panics when the
\* name is shorter than 5 bytes.
EchoOutName(name) ==
    IF Len(name) < 5 THEN [panic |-> TRUE, name |-> <<>>]
    ELSE [panic |-> FALSE, name |-> SubSeq(name, 1, Len(name) - 5) \o Ext_yaml]

EchoContent(data) == <<"# Rendered by echo-render plugin", "\n", "# Release: ", "\n">> \o data

\* setError(msg); return 1
setError(msg) ==
    /\ emitted' = Append(emitted, Encode([NewOutput EXCEPT !.errors = <<msg>>]))
    /\ status' = <<1>>
    /\ pc' = "done"

EchoStart ==
    /\ plugin = "echo-render" /\ pc = "start"
    /\ IF input.kind = "empty"
       THEN /\ setError(ErrMsg("no input provided", NoName))
            /\ UNCHANGED <<idx, output>>
       ELSE IF Decode(input).err
       THEN /\ setError(ErrMsg("failed to parse input", NoName))
            /\ UNCHANGED <<idx, output>>
       ELSE /\ pc' = "loop"
            /\ idx' = 1
            /\ output' = NewOutput
            /\ UNCHANGED <<emitted, status>>
    /\ UNCHANGED <<plugin, input, masterTmpl, actions, upstream>>

EchoLoop ==
    /\ plugin = "echo-render" /\ pc = "loop"
    /\ idx <= Len(input.sourceFiles)
    /\ LET sf == input.sourceFiles[idx]
           o == EchoOutName(sf.name)
       IN  IF o.panic
           THEN /\ pc' = "trap"
                /\ UNCHANGED <<idx, output>>
           ELSE /\ output' = [output EXCEPT !.renderedFiles =
                                 MapPut(@, o.name, EchoContent(sf.data))]
                /\ idx' = idx + 1
                /\ pc' = pc
    /\ UNCHANGED <<plugin, input, masterTmpl, actions, emitted, status, upstream>>

EchoFinish ==
    /\ plugin = "echo-render" /\ pc = "loop"
    /\ idx > Len(input.sourceFiles)
    /\ WriteOutput(output)
    /\ UNCHANGED <<plugin, input, idx, output, masterTmpl, actions, upstream>>

(***************************************************************************)
(* globally-installed-fallback                                             *)
(***************************************************************************)
FallbackName ==
    <<"f", "a", "l", "l", "b", "a", "c", "k", "-", "t", "e", "s", "t", "-",
      "r", "e", "s", "u", "l", "t", ".", "y", "a", "m", "l">>

\* The ConfigMap text: it names the source file and quotes its content.
FallbackContent(file) == [sourceFile |-> file.name, originalContent |-> file.data]

FbStart ==
    /\ plugin = "globally-installed-fallback" /\ pc = "start"
    /\ LET d == Decode(input)
       IN  IF d.err
           THEN /\ outputError(ErrMsg("failed to parse input", NoName))
                /\ UNCHANGED <<idx, output>>
           ELSE /\ pc' = "loop"
                /\ idx' = 1
                /\ output' = NewOutput
                /\ UNCHANGED <<emitted, status>>
    /\ UNCHANGED <<plugin, input, masterTmpl, actions, upstream>>

FbLoop ==
    /\ plugin = "globally-installed-fallback" /\ pc = "loop"
    /\ idx <= Len(input.sourceFiles)
    /\ output' = [output EXCEPT !.renderedFiles =
                     MapPut(@, FallbackName, FallbackContent(input.sourceFiles[idx]))]
    /\ idx' = idx + 1
    /\ UNCHANGED <<plugin, input, pc, masterTmpl, actions, emitted, status, upstream>>

FbFinish ==
    /\ plugin = "globally-installed-fallback" /\ pc = "loop"
    /\ idx > Len(input.sourceFiles)
    /\ WriteOutput(output)
    /\ UNCHANGED <<plugin, input, idx, output, masterTmpl, actions, upstream>>

(***************************************************************************)
(* The host's chaining of two plugins: the next plugin's sourceFiles are   *)
(* the previous plugin's modifiedSourceFiles when the field is present,    *)
(* and the unchanged working set when it is absent.                        *)
(***************************************************************************)
NextSourceFiles(msg, previous) ==
    IF "modifiedSourceFiles" \in DOMAIN msg THEN msg["modifiedSourceFiles"] ELSE previous

Handoff ==
    /\ plugin = "sourcefiles-modifier" /\ pc = "done" /\ status = <<0>>
    /\ upstream = <<>>
    /\ upstream' = <<[plugin |-> plugin, input |-> input, emitted |-> emitted, status |-> status]>>
    /\ plugin' = "test-processor"
    /\ input' = [kind |-> "json",
                 sourceFiles |-> NextSourceFiles(emitted[Len(emitted)], input.sourceFiles)]
    /\ pc' = "start"
    /\ idx' = 0
    /\ output' = NewOutput
    /\ actions' = <<>>
    /\ emitted' = <<>>
    /\ status' = <<>>
    /\ UNCHANGED masterTmpl
(***************************************************************************)
(* Inputs.  Every plugin is run on the envelopes its tests and charts give *)
(* it: empty or truncated bytes, and JSON envelopes whose sourceFiles are  *)
(* the sequences, up to a bound, over a set of sample files.               *)
(***************************************************************************)
SeqsUpTo(S, n) == UNION {[1..m -> S] : m \in 0..n}

FragX == <<"X">>

Tmpl(defines, root) == [syntaxOK |-> TRUE, defines |-> defines, root |-> root]

Broken(defines, root) == [syntaxOK |-> FALSE, defines |-> defines, root |-> root]

Define(name, body) == [name |-> name, body |-> body]

GtPartials ==
    { SourceFile(<<"t", "/", "_", "a", ".", "t", "p", "l">>,
                 Tmpl(<<Define(FragX, <<Text(<<"1">>)>>)>>, <<Text(<<"z">>)>>)),
      SourceFile(<<"_", "b", ".", "t", "p", "l">>,
                 Tmpl(<<Define(FragX, <<Text(<<"2">>)>>)>>, <<>>)),
      SourceFile(<<"_", "c", ".", "t", "p", "l">>,
                 Tmpl(<<Define(FragX, <<Text(<<" ">>)>>)>>, <<>>)),
      SourceFile(<<"_", "e", ".", "t", "p", "l">>,
                 Broken(<<Define(FragX, <<Text(<<"3">>)>>)>>, <<>>)) }

GtPrimaries ==
    { SourceFile(<<"p", ".", "y", "a", "m", "l">>, Tmpl(<<>>, <<Text(<<"p", "=">>), TemplateCall(FragX)>>)),
      SourceFile(<<"q", ".", "y", "a", "m", "l">>, Tmpl(<<>>, <<Text(<<"a">>)>>)),
      SourceFile(<<"q", ".", "y", "a", "m", "l">>, Tmpl(<<>>, <<Text(<<"b">>)>>)),
      SourceFile(<<"w", ".", "y", "m", "l">>, Tmpl(<<>>, <<Text(<<" ", "\n">>)>>)),
      SourceFile(<<"i", ".", "t", "p", "l">>, Tmpl(<<>>, <<IncludeCall(FragX)>>)),
      SourceFile(<<"u", ".", "t", "x", "t">>, Tmpl(<<>>, <<TplCall(<<"a">>)>>)),
      SourceFile(<<"r", ".", "y", "a", "m", "l">>, Tmpl(<<>>, <<Text(<<"r">>), RequiredCall(StrVal(<<>>))>>)),
      SourceFile(<<"b", ".", "y", "a", "m", "l">>, Broken(<<>>, <<Text(<<"a">>)>>)),
      SourceFile(<<"d", ".", "t", "x", "t">>,
                 Tmpl(<<Define(FragX, <<Text(<<"9">>)>>)>>, <<TemplateCall(FragX)>>)),
      SourceFile(<<"n", ".", "j", "s", "o", "n">>, Tmpl(<<>>, <<Text(<<"a">>)>>)) }

GtFiles == GtPartials \cup GtPrimaries

ChainFiles ==
    { SourceFile(<<"a", ".", "t", "e", "s", "t">>, <<"x">>),
      SourceFile(<<"b", ".", "t", "e", "s", "t">>, <<"y", "\n", "y">>),
      SourceFile(<<"c", ".", "t", "e", "s", "t">>, <<"z">>),
      SourceFile(<<"e", ".", "t", "x", "t">>, <<>>),
      SourceFile(<<"c", ".", "r", "e", "n", "a", "m", "e", "d">>, <<"x">>),
      SourceFile(NewFileName, <<"w">>),
      SourceFile(SummaryName, <<"s">>) }

EchoFiles ==
    { SourceFile(<<"a", ".", "e", "c", "h", "o">>, <<"x">>),
      SourceFile(<<".", "e", "c", "h", "o">>, <<"y">>),
      SourceFile(<<"a", "b", ".", "y", "a", "m", "l">>, <<"z">>),
      SourceFile(<<"a", ".", "e">>, <<"x">>),
      SourceFile(<<>>, <<>>) }

TpFiles ==
    { SourceFile(<<"a", ".", "t", "e", "s", "t">>, <<"x">>),
      SourceFile(<<"a">>, <<"y", "\n", "y">>),
      SourceFile(<<"b", ".", "t", "e", "s", "t">>, <<"z">>),
      SourceFile(TrimSuffix(TpSummaryName, Ext_yaml) \o Ext_test, <<"s">>),
      SourceFile(NewFileName, <<>>) }

FbFiles ==
    { SourceFile(<<"a", ".", "t", "e", "s", "t">>, <<"x">>),
      SourceFile(<<"a", ".", "t", "e", "s", "t">>, <<"y">>),
      SourceFile(<<"b", ".", "y", "a", "m", "l">>, <<>>) }

Plugins ==
    {"gotemplate-render", "sourcefiles-modifier", "test-processor", "echo-render",
     "globally-installed-fallback"}

SourceFileSeqs(p) ==
    CASE p = "gotemplate-render" -> SeqsUpTo(GtFiles, MaxFiles)
      [] p = "echo-render" -> SeqsUpTo(EchoFiles, MaxFiles)
      [] p = "test-processor" -> SeqsUpTo(TpFiles, MaxFiles)
      [] p = "globally-installed-fallback" -> SeqsUpTo(FbFiles, MaxFiles)
      [] OTHER -> SeqsUpTo(ChainFiles, MaxChainFiles)

Inputs(p) ==
    {[kind |-> k, sourceFiles |-> <<>>] : k \in RawKinds \ {"json"}}
      \cup {[kind |-> "json", sourceFiles |-> sf] : sf \in SourceFileSeqs(p)}

Init ==
    /\ plugin \in Plugins
    /\ input \in Inputs(plugin)
    /\ pc = "start"
    /\ idx = 0
    /\ output = NewOutput
    /\ masterTmpl = EmptyMap
    /\ actions = <<>>
    /\ emitted = <<>>
    /\ status = <<>>
    /\ upstream = <<>>

Next ==
    \/ GtStart \/ GtPass1 \/ GtPass1End \/ GtPass2 \/ GtFinish
    \/ MdStart \/ MdLoop \/ MdFinish
    \/ TpStart \/ TpLoop \/ TpFinish
    \/ EchoStart \/ EchoLoop \/ EchoFinish
    \/ FbStart \/ FbLoop \/ FbFinish
    \/ Handoff

Spec == Init /\ [][Next]_vars
(***************************************************************************)
(* The codec on its own: any OutputMessageRenderV1 a plugin may build is   *)
(* marshalled, and the host derives the next stage's sourceFiles from the  *)
(* encoded message.                                                        *)
(***************************************************************************)
CodecFiles ==
    { SourceFile(<<"a", ".", "t", "e", "s", "t">>, <<"x">>),
      SourceFile(<<"b", ".", "t", "e", "s", "t">>, <<"y">>) }

OutputMessages ==
    { [renderedFiles |-> r, modifiedSourceFiles |-> m, errors |-> e] :
          r \in {EmptyMap, MapPut(EmptyMap, SummaryName, <<"x">>)},
          m \in {NilSlice, MakeSlice} \cup
                {SliceAppend(MakeSlice, f) : f \in CodecFiles} \cup
                {SliceAppend(SliceAppend(MakeSlice, f), g) : f \in CodecFiles, g \in CodecFiles},
          e \in {<<>>, <<ErrMsg("render error", <<"a", ".", "t", "e", "s", "t">>)>>} }

InitCodec ==
    /\ plugin = "codec"
    /\ input \in {[kind |-> "json", sourceFiles |-> sf] : sf \in SeqsUpTo(CodecFiles, MaxCodecFiles)}
    /\ pc = "encode"
    /\ idx = 0
    /\ output \in OutputMessages
    /\ masterTmpl = EmptyMap
    /\ actions = <<>>
    /\ emitted = <<>>
    /\ status = <<>>
    /\ upstream = <<>>

\* json.Marshal(output); pdk.Output(outputBytes); return 0
CodecMarshal ==
    /\ plugin = "codec" /\ pc = "encode"
    /\ WriteOutput(output)
    /\ UNCHANGED <<plugin, input, idx, output, masterTmpl, actions, upstream>>

\* The host reads the message and sets up the next stage's sourceFiles.
CodecHandoff ==
    /\ plugin = "codec" /\ pc = "done"
    /\ upstream' = <<[plugin |-> plugin, input |-> input, emitted |-> emitted, status |-> status]>>
    /\ input' = [kind |-> "json",
                 sourceFiles |-> NextSourceFiles(emitted[1], input.sourceFiles)]
    /\ pc' = "received"
    /\ UNCHANGED <<plugin, idx, output, masterTmpl, actions, emitted, status>>

NextCodec == CodecMarshal \/ CodecHandoff

SpecCodec == InitCodec /\ [][NextCodec]_vars

(***************************************************************************)
(* Repeated invocations of one plugin instance.  The host calls            *)
(* HelmPluginMain again with a new input; the memory of the instance is    *)
(* as the previous call left it, and only what HelmPluginMain assigns is   *)
(* fresh.  upstream remembers one earlier invocation and whether an        *)
(* invocation with another input has ended since.                          *)
(***************************************************************************)
MaxRepeatFiles == 2

RepeatFiles(p) ==
    CASE p = "gotemplate-render" ->
            { SourceFile(<<"_", "b", ".", "t", "p", "l">>,
                         Tmpl(<<Define(FragX, <<Text(<<"2">>)>>)>>, <<>>)),
              SourceFile(<<"p", ".", "y", "a", "m", "l">>,
                         Tmpl(<<>>, <<Text(<<"p", "=">>), TemplateCall(FragX)>>)) }
      [] p = "echo-render" ->
            { SourceFile(<<"a", ".", "e", "c", "h", "o">>, <<"x">>),
              SourceFile(<<"a", ".", "e">>, <<"x">>) }
      [] OTHER ->
            { SourceFile(<<"a", ".", "t", "e", "s", "t">>, <<"x">>),
              SourceFile(<<"b", ".", "t", "e", "s", "t">>, <<"y", "\n", "y">>) }

RepeatInputs(p) ==
    {[kind |-> k, sourceFiles |-> <<>>] : k \in RawKinds \ {"json"}}
      \cup {[kind |-> "json", sourceFiles |-> sf] : sf \in SeqsUpTo(RepeatFiles(p), MaxRepeatFiles)}

InitRepeat ==
    /\ plugin \in Plugins
    /\ input \in RepeatInputs(plugin)
    /\ pc = "start"
    /\ idx = 0
    /\ output = NewOutput
    /\ masterTmpl = EmptyMap
    /\ actions = <<>>
    /\ emitted = <<>>
    /\ status = <<>>
    /\ upstream = <<>>

\* The finished invocation, as the host saw it.
Invocation(between) ==
    [plugin |-> plugin, input |-> input, emitted |-> emitted, status |-> status,
     between |-> between]

\* The host calls the same instance again.
Reinvoke ==
    /\ pc = "done"
    /\ upstream' \in (IF upstream = <<>>
                      THEN {<<>>, <<Invocation(FALSE)>>}
                      ELSE {<<[upstream[1] EXCEPT !.between = @ \/ input # upstream[1].input]>>})
    /\ input' \in RepeatInputs(plugin)
    /\ pc' = "start"
    /\ emitted' = <<>>
    /\ status' = <<>>
    /\ UNCHANGED <<plugin, idx, output, masterTmpl, actions>>

NextRepeat ==
    \/ GtStart \/ GtPass1 \/ GtPass1End \/ GtPass2 \/ GtFinish
    \/ MdStart \/ MdLoop \/ MdFinish
    \/ TpStart \/ TpLoop \/ TpFinish
    \/ EchoStart \/ EchoLoop \/ EchoFinish
    \/ FbStart \/ FbLoop \/ FbFinish
    \/ Reinvoke

SpecRepeat == InitRepeat /\ [][NextRepeat]_vars

(***************************************************************************)
(* The functions of funcMap on their own: a function is called with        *)
(* arguments drawn from the values a template can pass (nil, strings,      *)
(* numbers, booleans, sequences, mappings) and returns a value.            *)
(***************************************************************************)
MaxNum == 1

Fallback == StrVal(<<"f", "a", "l", "l", "b", "a", "c", "k">>)

FuncValues ==
    {NilVal, StrVal(<<>>), StrVal(<<"a">>), StrVal(<<" ">>), Fallback,
     BoolVal(FALSE), BoolVal(TRUE), FuncList(<<>>), FuncDict(<<>>),
     ListVal(<<NumVal(0)>>), MapVal(MapPut(EmptyMap, <<"k">>, StrVal(<<>>))),
     StrListVal(<<>>), StrListVal(<<<<"a">>>>), StrMapVal(EmptyMap)}
      \cup {NumVal(n) : n \in 0..MaxNum}

\* Messages given to required: plain text, and text with a percent sign.
RequiredMsgs ==
    { <<"m", "s", "g">>, <<"1", "0", "0", "%">>, <<"%", "d", " ", "x">>, <<"5", "%", "%">> }

\* Values with a JSON encoding in the model: scalars, sequences of scalars
\* and mappings with at most one key.
JsonValues ==
    {v \in FuncValues : v.t \in {"nil", "str", "num", "bool", "list", "map"}}
      \cup {ListVal(<<StrVal(<<"a">>), NumVal(0)>>)}

MaxIndent == 2

MaxDictArgs == 4

DictValues == {StrVal(<<"a">>), StrVal(<<>>), NumVal(0), NilVal}

IndentTexts ==
    { <<>>, <<"a">>, <<"a", "\n", "\n", "b">>, <<"\n">>, <<" ", "\n", "a", "b">>,
      <<"a", "\n">>, <<"\n", "\n", "a">> }

FuncCalls ==
    {[fn |-> "default", args |-> <<d, v>>] : d \in FuncValues, v \in FuncValues}
      \cup {[fn |-> "required", args |-> <<StrVal(m), v>>] : m \in RequiredMsgs, v \in FuncValues}
      \cup {[fn |-> "empty", args |-> <<v>>] : v \in FuncValues}
      \cup {[fn |-> "indent", args |-> <<n, s>>] : n \in (-1)..MaxIndent, s \in IndentTexts}
      \cup {[fn |-> "dict", args |-> a] : a \in SeqsUpTo(DictValues, MaxDictArgs)}
      \cup {[fn |-> "toYaml", args |-> <<v>>] : v \in JsonValues}

InitFuncs ==
    /\ plugin = "funcMap"
    /\ input \in FuncCalls
    /\ pc = "call"
    /\ idx = 0
    /\ output = NilVal
    /\ masterTmpl = EmptyMap
    /\ actions = <<>>
    /\ emitted = <<>>
    /\ status = <<>>
    /\ upstream = <<>>

CallDefault ==
    /\ plugin = "funcMap" /\ pc = "call" /\ input.fn = "default"
    /\ output' = FuncDefault(input.args[1], input.args[2])
    /\ pc' = "returned"
    /\ UNCHANGED <<plugin, input, idx, masterTmpl, actions, emitted, status, upstream>>

CallRequired ==
    /\ plugin = "funcMap" /\ pc = "call" /\ input.fn = "required"
    /\ output' = FuncRequired(input.args[1].v, input.args[2])
    /\ pc' = "returned"
    /\ UNCHANGED <<plugin, input, idx, masterTmpl, actions, emitted, status, upstream>>

CallEmpty ==
    /\ plugin = "funcMap" /\ pc = "call" /\ input.fn = "empty"
    /\ output' = BoolVal(FuncEmpty(input.args[1]))
    /\ pc' = "returned"
    /\ UNCHANGED <<plugin, input, idx, masterTmpl, actions, emitted, status, upstream>>

\* indent and nindent called with the same arguments.
CallIndent ==
    /\ plugin = "funcMap" /\ pc = "call" /\ input.fn = "indent"
    /\ output' = [indent |-> FuncIndent(input.args[1], input.args[2]),
                  nindent |-> FuncNindent(input.args[1], input.args[2])]
    /\ pc' = "returned"
    /\ UNCHANGED <<plugin, input, idx, masterTmpl, actions, emitted, status, upstream>>

\* dict called, and empty applied to its result.
CallDict ==
    /\ plugin = "funcMap" /\ pc = "call" /\ input.fn = "dict"
    /\ output' = [dict |-> FuncDict(input.args), empty |-> FuncEmpty(FuncDict(input.args))]
    /\ pc' = "returned"
    /\ UNCHANGED <<plugin, input, idx, masterTmpl, actions, emitted, status, upstream>>

\* toYaml and toPrettyJson called with the same value.
CallToYaml ==
    /\ plugin = "funcMap" /\ pc = "call" /\ input.fn = "toYaml"
    /\ output' = [toYaml |-> FuncToYaml(input.args[1]),
                  toPrettyJson |-> FuncToPrettyJson(input.args[1])]
    /\ pc' = "returned"
    /\ UNCHANGED <<plugin, input, idx, masterTmpl, actions, emitted, status, upstream>>

NextFuncs ==
    CallDefault \/ CallRequired \/ CallEmpty \/ CallIndent \/ CallDict \/ CallToYaml

SpecFuncs == InitFuncs /\ [][NextFuncs]_vars

(***************************************************************************)
(* The mock ArtifactHub server: main discovers the plugins into the table  *)
(* s.plugins and then serves handlePlugin and handleSearch over it.  Here  *)
(* plugin is "mock-artifacthub", actions holds s.plugins, idx is the       *)
(* position of discovery in the listed repositories, input is the request  *)
(* being served and output the response to it; pc is "discover" during     *)
(* discovery, "serve" while waiting for a request, "served" after one.     *)
(***************************************************************************)
KindHelmPlugin == 6

UpperLetters ==
    <<"A", "B", "C", "D", "E", "F", "G", "H", "I", "J", "K", "L", "M",
      "N", "O", "P", "Q", "R", "S", "T", "U", "V", "W", "X", "Y", "Z">>

LowerLetters ==
    <<"a", "b", "c", "d", "e", "f", "g", "h", "i", "j", "k", "l", "m",
      "n", "o", "p", "q", "r", "s", "t", "u", "v", "w", "x", "y", "z">>

\* strings.ToLower
ToLower(s) ==
    [k \in 1..Len(s) |->
        IF \E j \in 1..26 : UpperLetters[j] = s[k]
        THEN LowerLetters[CHOOSE j \in 1..26 : UpperLetters[j] = s[k]]
        ELSE s[k]]

\* strings.Contains
Contains(s, substr) ==
    \E k \in 0..(Len(s) - Len(substr)) : SubSeq(s, k + 1, k + Len(substr)) = substr

\* strings.Split(s, sep) for a one-character separator
RECURSIVE Split(_, _)
Split(s, sep) ==
    IF \E k \in 1..Len(s) : s[k] = sep
    THEN LET k == CHOOSE k \in 1..Len(s) : s[k] = sep /\ \A m \in 1..(k - 1) : s[m] # sep
         IN  <<SubSeq(s, 1, k - 1)>> \o Split(SubSeq(s, k + 1, Len(s)), sep)
    ELSE <<s>>

\* strconv.Itoa, for n >= 0
RECURSIVE Itoa(_)
Itoa(n) == IF n < 10 THEN <<Digits[n + 1]>> ELSE Itoa(n \div 10) \o <<Digits[(n % 10) + 1]>>

RECURSIVE ParseDigits(_, _)
ParseDigits(s, acc) ==
    IF s = <<>> THEN acc
    ELSE ParseDigits(Tail(s), acc * 10 + (CHOOSE k \in 1..10 : Digits[k] = Head(s)) - 1)

\* strconv.Atoi with its error discarded: an optional sign and decimal
\* digits give the number, anything else gives 0.  (Texts of 19 digits and
\* more, which give the largest int, are not among the inputs.)
Atoi(s) ==
    LET body == IF s # <<>> /\ Head(s) \in {"+", "-"} THEN Tail(s) ELSE s
        ok == body # <<>> /\ \A k \in 1..Len(body) : \E j \in 1..10 : Digits[j] = body[k]
    IN  IF ~ok THEN 0
        ELSE IF Head(s) = "-" THEN 0 - ParseDigits(body, 0)
        ELSE ParseDigits(body, 0)

\* The fields of PluginPackage that differ between packages.
PluginPackage(name, version, description) ==
    [PackageID |-> name \o <<"-">> \o version, Name |-> name,
     Version |-> version, Description |-> description]

\* s.plugins[pluginName] = append(s.plugins[pluginName], pkg)
AppendPackage(plugins, pkg) ==
    MapPut(plugins, pkg.Name,
           (IF pkg.Name \in DOMAIN plugins THEN plugins[pkg.Name] ELSE <<>>) \o <<pkg>>)

TagLatest == <<"l", "a", "t", "e", "s", "t">>

\* fmt.Sprintf("Helm 4 render plugin: %s", pluginName)
OciDescription(pluginName) ==
    <<"H", "e", "l", "m", " ", "4", " ", "r", "e", "n", "d", "e", "r", " ",
      "p", "l", "u", "g", "i", "n", ":", " ">> \o pluginName

\* The loop of discoverPluginVersions over the tags oras lists.
RECURSIVE AddTags(_, _, _)
AddTags(plugins, pluginName, tags) ==
    IF tags = <<>> THEN plugins
    ELSE AddTags(IF Head(tags) = <<>> \/ Head(tags) = TagLatest
                 THEN plugins
                 ELSE AppendPackage(plugins,
                          PluginPackage(pluginName, Head(tags), OciDescription(pluginName))),
                 pluginName, Tail(tags))

DefaultVersion == <<"0", ".", "1", ".", "0">>

\* addLocalPlugin, given the version and description fields of plugin.yaml
AddLocal(plugins, pluginName, version, description) ==
    AppendPackage(plugins,
        PluginPackage(pluginName, IF version = <<>> THEN DefaultVersion ELSE version,
                      description))

\* The plugin names the listing (or the plugins directory) gives.
HubRepos == << <<"a", "b">>, <<"b">> >>

\* The tags oras lists for one repository; an empty listing splits into [""].
HubTagLists ==
    { << <<>> >>, <<TagLatest>>, << <<"1">> >>, << <<"1">>, <<"2">> >>,
      << <<"1">>, TagLatest >>, << TagLatest, <<"2">>, <<"1">> >> }

HubLocalVersions == { <<>>, <<"1">> }

HubLocalDescriptions == { <<>>, <<"A">> }

NoRequest == [kind |-> "none"]

InitHub ==
    /\ plugin = "mock-artifacthub"
    /\ input = NoRequest
    /\ pc = "discover"
    /\ idx = 1
    /\ output = NoRequest
    /\ masterTmpl = EmptyMap
    /\ actions = EmptyMap
    /\ emitted = <<>>
    /\ status = <<>>
    /\ upstream = <<>>

discoverPluginVersions ==
    /\ plugin = "mock-artifacthub" /\ pc = "discover" /\ idx <= Len(HubRepos)
    /\ \E tags \in HubTagLists : actions' = AddTags(actions, HubRepos[idx], tags)
    /\ idx' = idx + 1
    /\ UNCHANGED <<plugin, input, pc, output, masterTmpl, emitted, status, upstream>>

addLocalPlugin ==
    /\ plugin = "mock-artifacthub" /\ pc = "discover" /\ idx <= Len(HubRepos)
    /\ \E version \in HubLocalVersions, description \in HubLocalDescriptions :
          actions' = AddLocal(actions, HubRepos[idx], version, description)
    /\ idx' = idx + 1
    /\ UNCHANGED <<plugin, input, pc, output, masterTmpl, emitted, status, upstream>>

\* oras fails, or the plugin has no plugin.yaml: a warning, nothing added.
discoverNothing ==
    /\ plugin = "mock-artifacthub" /\ pc = "discover" /\ idx <= Len(HubRepos)
    /\ idx' = idx + 1
    /\ UNCHANGED <<plugin, input, pc, output, masterTmpl, actions, emitted, status, upstream>>

ListenAndServe ==
    /\ plugin = "mock-artifacthub" /\ pc = "discover" /\ idx > Len(HubRepos)
    /\ pc' = "serve"
    /\ UNCHANGED <<plugin, input, idx, output, masterTmpl, actions, emitted, status, upstream>>

PluginPathPrefix ==
    <<"/", "a", "p", "i", "/", "v", "1", "/", "p", "a", "c", "k", "a", "g", "e", "s", "/",
      "h", "e", "l", "m", "-", "p", "l", "u", "g", "i", "n", "/">>

NotFound == [kind |-> "plugin", code |-> 404, pkg |-> <<>>]

\* Mutant: the version segment is ignored, the latest version is served.
handlePluginAnswer_ignoresVersion(plugins, path) ==
    LET parts == Split(TrimPrefix(path, PluginPathPrefix), "/")
    IN  IF Len(parts) < 2 THEN NotFound
        ELSE IF parts[2] \notin DOMAIN plugins THEN NotFound
        ELSE IF Len(plugins[parts[2]]) = 0 THEN NotFound
        ELSE [kind |-> "plugin", code |-> 200,
              pkg |-> <<plugins[parts[2]][Len(plugins[parts[2]])]>>]

\* The response handlePlugin writes for a request path.
handlePluginAnswer(plugins, path) ==
    LET parts == Split(TrimPrefix(path, PluginPathPrefix), "/")
    IN  IF Len(parts) < 2 THEN NotFound
        ELSE IF parts[2] \notin DOMAIN plugins THEN NotFound
        ELSE IF Len(plugins[parts[2]]) = 0 THEN NotFound
        ELSE LET versions == plugins[parts[2]]
                 hits == {i \in 1..Len(versions) : versions[i].Version = parts[3]}
             IN  IF Len(parts) = 3
                 THEN IF hits = {} THEN NotFound
                      ELSE [kind |-> "plugin", code |-> 200,
                            pkg |-> <<versions[CHOOSE i \in hits : \A j \in hits : i <= j]>>]
                 ELSE [kind |-> "plugin", code |-> 200, pkg |-> <<versions[Len(versions)]>>]

\* The loop of handleSearch over s.plugins, visited in the given order.
RECURSIVE SearchResults(_, _, _)
SearchResults(plugins, order, searchQuery) ==
    IF order = <<>> THEN <<>>
    ELSE LET versions == plugins[Head(order)]
             pkg == versions[Len(versions)]
             keep == /\ Len(versions) # 0
                     /\ \/ searchQuery = <<>>
                        \/ Contains(ToLower(pkg.Name), searchQuery)
                        \/ Contains(ToLower(pkg.Description), searchQuery)
         IN  (IF keep THEN <<pkg>> ELSE <<>>) \o SearchResults(plugins, Tail(order), searchQuery)

\* results[offset:end] of handleSearch; the slice expression panics when
\* offset is negative or end is below offset.
Paginate(results, offset, limit) ==
    IF offset < Len(results)
    THEN LET end == IF offset + limit > Len(results) THEN Len(results) ELSE offset + limit
         IN  IF offset < 0 \/ end < offset
             THEN [panic |-> TRUE, packages |-> <<>>]
             ELSE [panic |-> FALSE, packages |-> SubSeq(results, offset + 1, end)]
    ELSE [panic |-> FALSE, packages |-> <<>>]

\* The response handleSearch writes: results is the list before pagination,
\* completed is FALSE when the handler panicked before writing anything.
handleSearchAnswer(plugins, query, order) ==
    IF query.kind # <<>> /\ query.kind # Itoa(KindHelmPlugin)
    THEN [kind |-> "search", completed |-> TRUE, results |-> <<>>,
          totalCount |-> <<>>, packages |-> <<>>]
    ELSE LET results == SearchResults(plugins, order, ToLower(query.ts_query_web))
             offset == IF query.offset # <<>> THEN Atoi(query.offset) ELSE 0
             limit == IF query.limit # <<>> THEN Atoi(query.limit) ELSE 20
             page == Paginate(results, offset, limit)
         IN  IF page.panic
             THEN [kind |-> "search", completed |-> FALSE, results |-> results,
                   totalCount |-> <<>>, packages |-> <<>>]
             ELSE [kind |-> "search", completed |-> TRUE, results |-> results,
                   totalCount |-> <<Itoa(Len(results))>>, packages |-> page.packages]

\* The orders in which a range over a map can visit its keys.
Orders(keys) ==
    {f \in [1..Cardinality(keys) -> keys] : \A i, j \in DOMAIN f : f[i] = f[j] => i = j}

PluginPaths ==
    {PluginPathPrefix \o rest : rest \in
        { <<>>, <<"r">>, <<"r", "/">>, <<"r", "/", "a", "b">>, <<"r", "/", "b">>,
          <<"r", "/", "c">>, <<"r", "/", "a", "b", "/">>, <<"r", "/", "a", "b", "/", "1">>,
          <<"r", "/", "a", "b", "/", "2">>, <<"r", "/", "a", "b", "/", "3">>,
          <<"r", "/", "b", "/", "1">>, <<"r", "/", "b", "/", "l", "a", "t", "e", "s", "t">>,
          <<"r", "/", "a", "b", "/", "1", "/", "x">>, <<"a", "b">>,
          <<"r", "/", "b", "/", "0", ".", "1", ".", "0">> }}

SearchKinds == { <<>>, <<"6">>, <<"0">> }

SearchTerms == { <<>>, <<"a">>, <<"B">>, <<"z">> }

\* Values of the offset and limit parameters: absent, zero, inside and
\* beyond the result count, negative, not a number.
PageValues == { <<>>, <<"0">>, <<"1">>, <<"2">>, <<"5">>, <<"-", "1">>, <<"x">> }

SearchQueries ==
    {[kind |-> k, ts_query_web |-> t, offset |-> o, limit |-> l] :
        k \in SearchKinds, t \in SearchTerms, o \in PageValues, l \in PageValues}

handlePlugin ==
    /\ plugin = "mock-artifacthub" /\ pc = "serve"
    /\ \E path \in PluginPaths :
          /\ input' = [kind |-> "plugin", path |-> path]
          /\ output' = handlePluginAnswer(actions, path)
    /\ pc' = "served"
    /\ UNCHANGED <<plugin, idx, masterTmpl, actions, emitted, status, upstream>>

handleSearch ==
    /\ plugin = "mock-artifacthub" /\ pc = "serve"
    /\ \E query \in SearchQueries, order \in Orders(DOMAIN actions) :
          /\ input' = [kind |-> "search", query |-> query]
          /\ output' = handleSearchAnswer(actions, query, order)
    /\ pc' = "served"
    /\ UNCHANGED <<plugin, idx, masterTmpl, actions, emitted, status, upstream>>

\* The server waits for the next request.
NextRequest ==
    /\ plugin = "mock-artifacthub" /\ pc = "served"
    /\ pc' = "serve"
    /\ input' = NoRequest
    /\ output' = NoRequest
    /\ UNCHANGED <<plugin, idx, masterTmpl, actions, emitted, status, upstream>>

NextHub ==
    \/ discoverPluginVersions
    \/ addLocalPlugin
    \/ discoverNothing
    \/ ListenAndServe
    \/ handlePlugin
    \/ handleSearch
    \/ NextRequest

SpecHub == InitHub /\ [][NextHub]_vars

(***************************************************************************)
(* Properties                                                              *)
(***************************************************************************)
Undecodable == input.kind # "json"

Finished == pc = "done"

FieldOr(msg, f, default) == IF f \in DOMAIN msg THEN msg[f] ELSE default

\* C1: an invocation whose input envelope cannot be decoded never enters a
\* loop over files, and once it has returned it has returned 1 and written
\* exactly one message, with empty renderedFiles, exactly one error and no
\* modifiedSourceFiles.
C1_DecodeFailureIsFatal ==
    Undecodable =>
        /\ pc \in {"start", "done"}
        /\ idx = 0
        /\ output = NewOutput
        /\ Finished =>
              /\ status = <<1>>
              /\ Len(emitted) = 1
              /\ DOMAIN emitted[1] = {"renderedFiles", "errors"}
              /\ DOMAIN emitted[1]["renderedFiles"] = {}
              /\ Len(emitted[1]["errors"]) = 1

C1_Witness ==
    /\ Undecodable /\ Finished
    /\ input.kind = "truncated"
    /\ plugin = "gotemplate-render"
    /\ status = <<1>>

\* C2: sourcefiles-modifier turns [A, B, C, rest...] into
\* [B', C', rest..., D]: B' has B's name and the header before B's bytes, C'
\* has C's bytes under another name, the rest is unchanged and D is the new
\* file; test-processor run on that sequence receives exactly these files
\* and reports their number and names.
C2_Expected(sf, m) ==
    /\ Len(m) = Len(sf)
    /\ m[1].name = sf[2].name
    /\ m[1].data = ModifiedHeader \o sf[2].data
    /\ m[1].data # sf[2].data
    /\ m[2].name # sf[3].name
    /\ m[2].name = (IF HasSuffix(sf[3].name, Ext_test)
                    THEN SubSeq(sf[3].name, 1, Len(sf[3].name) - 5)
                    ELSE sf[3].name) \o Ext_renamed
    /\ m[2].data = sf[3].data
    /\ \A k \in 4..Len(sf) : m[k - 1] = sf[k]
    /\ m[Len(m)] = SourceFile(NewFileName, NewFileContent)

C2_SequentialHandoff ==
    /\ (plugin = "sourcefiles-modifier" /\ Finished /\ Len(input.sourceFiles) >= 3) =>
          /\ status = <<0>>
          /\ C2_Expected(input.sourceFiles, FieldOr(emitted[1], "modifiedSourceFiles", <<>>))
    /\ (plugin = "test-processor" /\ upstream # <<>>
          /\ Len(upstream[1].input.sourceFiles) >= 3) =>
          /\ C2_Expected(upstream[1].input.sourceFiles, input.sourceFiles)
          /\ Finished =>
                LET summary == emitted[1]["renderedFiles"][TpSummaryName]
                IN  /\ summary.filesReceived = Len(upstream[1].input.sourceFiles)
                    /\ summary.fileList = [k \in 1..Len(input.sourceFiles) |->
                                              input.sourceFiles[k].name]

C2_Witness ==
    /\ plugin = "test-processor" /\ upstream # <<>> /\ Finished
    /\ Len(upstream[1].input.sourceFiles) = 3
    /\ Len(input.sourceFiles) = 3
    /\ emitted[1]["renderedFiles"][TpSummaryName].filesReceived = 3
    /\ input.sourceFiles[3].name = NewFileName
Gt == plugin = "gotemplate-render"

GtDone == Gt /\ pc = "done" /\ status = <<0>>

DefinesX(file) ==
    \E k \in 1..Len(file.data.defines) : file.data.defines[k].name = FragX

BodyX(file) ==
    file.data.defines[CHOOSE k \in 1..Len(file.data.defines) :
                          file.data.defines[k].name = FragX].body

\* sf[j] is a partial file that parses and defines fragment X.
PartialX(sf, j) == IsPartial(sf[j]) /\ sf[j].data.syntaxOK /\ DefinesX(sf[j])

\* sf[j] is the later of two partial files that define X with different bodies.
LaterOfTwo(sf, j) ==
    /\ j \in 1..Len(sf) /\ PartialX(sf, j)
    /\ \A m \in (j + 1)..Len(sf) : ~PartialX(sf, m)
    /\ \E i \in 1..(j - 1) : PartialX(sf, i) /\ BodyX(sf[i]) # BodyX(sf[j])

IsPrimary(file) == ~IsPartial(file) /\ IsTemplateFile(file)

\* A primary file that invokes X with the template action and defines nothing.
UsesX(file) ==
    /\ IsPrimary(file) /\ file.data.syntaxOK /\ file.data.defines = <<>>
    /\ \E k \in 1..Len(file.data.root) : file.data.root[k] = TemplateCall(FragX)
    /\ \A k \in 1..Len(file.data.root) :
           file.data.root[k].k = "text" \/ file.data.root[k] = TemplateCall(FragX)

\* The text of root when X stands for body.
RECURSIVE TextWith(_, _)
TextWith(body, root) ==
    IF root = <<>> THEN <<>>
    ELSE (IF Head(root).k = "text" THEN Head(root).s
          ELSE TextWith(<<>>, body)) \o TextWith(body, Tail(root))

RendersAs(file, text) ==
    IF TrimSpace(text) = <<>>
    THEN output' = output
    ELSE /\ output'.errors = output.errors
         /\ file.name \in DOMAIN output'.renderedFiles
         /\ output'.renderedFiles[file.name] = text

\* C3 as stated: when two partial files define X with different bodies, a
\* primary file that invokes X renders the body of the later file.
C3_LastWins_Original ==
    [][(Gt /\ pc = "pass2" /\ idx <= Len(input.sourceFiles)
          /\ UsesX(input.sourceFiles[idx]))
        => \A j \in 1..Len(input.sourceFiles) :
              LaterOfTwo(input.sourceFiles, j)
              => RendersAs(input.sourceFiles[idx],
                           TextWith(BodyX(input.sourceFiles[j]), input.sourceFiles[idx].data.root))]_vars

\* C3 (amended): when two partial files that parse define X with different
\* bodies and the body of the later one is not all whitespace, a primary
\* file that invokes X with the template action, and does not define X
\* itself, renders the body of the later file.
C3_LastWins ==
    [][(Gt /\ pc = "pass2" /\ idx <= Len(input.sourceFiles)
          /\ UsesX(input.sourceFiles[idx]))
        => \A j \in 1..Len(input.sourceFiles) :
              (LaterOfTwo(input.sourceFiles, j) /\ ~IsEmptyTree(BodyX(input.sourceFiles[j])))
              => RendersAs(input.sourceFiles[idx],
                           TextWith(BodyX(input.sourceFiles[j]), input.sourceFiles[idx].data.root))]_vars

C3_Witness ==
    /\ Gt /\ pc = "pass2"
    /\ \E k \in 1..(idx - 1) : \E j \in 1..Len(input.sourceFiles) :
          /\ UsesX(input.sourceFiles[k])
          /\ LaterOfTwo(input.sourceFiles, j) /\ ~IsEmptyTree(BodyX(input.sourceFiles[j]))
          /\ input.sourceFiles[k].name \in DOMAIN output.renderedFiles
          /\ output.renderedFiles[input.sourceFiles[k].name]
                = TextWith(BodyX(input.sourceFiles[j]), input.sourceFiles[k].data.root)

\* The names the first pass registers: every partial file that parses, and
\* every fragment such a file defines.
RegisteredNames(sf) ==
    UNION {{sf[j].name} \cup {sf[j].data.defines[k].name : k \in 1..Len(sf[j].data.defines)} :
              j \in {m \in 1..Len(sf) : IsPartial(sf[m]) /\ sf[m].data.syntaxOK}}

\* C4: while the first pass runs nothing is rendered and no primary file is
\* parsed; from the first step of the second pass on, the namespace is the
\* one built from all partial files of sourceFiles, wherever they stand.
C4_Pass1IsBarrier ==
    Gt =>
      /\ pc = "pass1" =>
            /\ DOMAIN output.renderedFiles = {}
            /\ \A e \in 1..Len(output.errors) :
                  \E j \in 1..(idx - 1) :
                      IsPartial(input.sourceFiles[j])
                        /\ output.errors[e] = ErrMsg("parse error", input.sourceFiles[j].name)
      /\ (pc = "pass2" \/ GtDone) =>
            /\ DOMAIN masterTmpl = RegisteredNames(input.sourceFiles)
            /\ masterTmpl = Pass1From(EmptyMap, NewOutput, input.sourceFiles).tmpl

C4_Witness ==
    /\ Gt /\ pc = "pass2" /\ idx = 2 /\ Len(input.sourceFiles) >= 2
    /\ UsesX(input.sourceFiles[1])
    /\ PartialX(input.sourceFiles, 2)
    /\ input.sourceFiles[1].name \in DOMAIN output.renderedFiles

RemoveAt(sf, k) == SubSeq(sf, 1, k - 1) \o SubSeq(sf, k + 1, Len(sf))

\* sf[k] is a primary file whose parse or execution fails.
FailingPrimary(sf, k) ==
    /\ IsPrimary(sf[k])
    /\ LET ns == Pass1From(EmptyMap, NewOutput, sf).tmpl
           p == ParseInto(ns, sf[k].name, sf[k].data)
       IN  p.err \/ Execute(p.ns, sf[k].data.root).err

\* C5: a primary file that fails adds one error, and the rendered files are
\* those of the same input without that file.
C5_FailureIsIsolated ==
    GtDone =>
      \A k \in 1..Len(input.sourceFiles) :
          FailingPrimary(input.sourceFiles, k) =>
              LET r == RunGotemplate(RemoveAt(input.sourceFiles, k))
              IN  /\ output.renderedFiles = r.renderedFiles
                  /\ emitted[1]["renderedFiles"] = r.renderedFiles
                  /\ Len(output.errors) = Len(r.errors) + 1
                  /\ \E e \in 1..Len(output.errors) :
                        output.errors[e].file = input.sourceFiles[k].name

C5_Witness ==
    /\ GtDone
    /\ DOMAIN output.renderedFiles # {}
    /\ \E k \in 1..(Len(input.sourceFiles) - 1) :
          /\ FailingPrimary(input.sourceFiles, k)
          /\ input.sourceFiles[k + 1].name \in DOMAIN output.renderedFiles
\* C6: no invocation traps: every invocation that stops has returned a
\* status code and written one output message.
C6_NeverRaises ==
    /\ pc # "trap"
    /\ Finished => (Len(status) = 1 /\ Len(emitted) = 1)

ExplicitEmpty(out) ==
    ~out.modifiedSourceFiles.isNil /\ out.modifiedSourceFiles.items = <<>>

C8_IncludeAndTplRender ==
    GtDone =>
      \A k \in 1..Len(input.sourceFiles) :
          LET f == input.sourceFiles[k]
          IN  (/\ IsPrimary(f) /\ f.data.syntaxOK /\ Len(f.data.root) = 1
               /\ \/ f.data.root[1].k = "include" /\ f.data.root[1].n \in DOMAIN masterTmpl
                  \/ f.data.root[1].k = "tpl")
              => /\ f.name \in DOMAIN output.renderedFiles
                 /\ \A e \in 1..Len(output.errors) : output.errors[e].file # f.name

\* A primary file of text only whose text is all whitespace.
BlankPrimary(f) ==
    /\ IsPrimary(f) /\ f.data.syntaxOK /\ f.data.defines = <<>>
    /\ \A k \in 1..Len(f.data.root) : f.data.root[k].k = "text"
    /\ TrimSpace(TextWith(<<>>, f.data.root)) = <<>>

\* A file that is no primary file and records no error.
Silent(f) == (IsPartial(f) /\ f.data.syntaxOK) \/ (~IsPartial(f) /\ ~IsTemplateFile(f))

OnlyBlankPrimaries(sf) ==
    /\ \A k \in 1..Len(sf) : BlankPrimary(sf[k]) \/ Silent(sf[k])
    /\ \E k \in 1..Len(sf) : BlankPrimary(sf[k])

\* C9: no value of renderedFiles is all whitespace; an input whose primary
\* files all render blank text ends with status 0 and the message
\* {renderedFiles: {}} with no errors.
C9_BlankOutputIsSkipped ==
    Gt =>
      /\ \A n \in DOMAIN output.renderedFiles : TrimSpace(output.renderedFiles[n]) # <<>>
      /\ \A m \in 1..Len(emitted) :
            \A n \in DOMAIN emitted[m]["renderedFiles"] :
                TrimSpace(emitted[m]["renderedFiles"][n]) # <<>>
      /\ (Finished /\ ~Undecodable /\ OnlyBlankPrimaries(input.sourceFiles)) =>
            /\ status = <<0>>
            /\ emitted = <<[f \in {"renderedFiles"} |-> EmptyMap]>>

C9_Witness ==
    /\ GtDone
    /\ OnlyBlankPrimaries(input.sourceFiles)
    /\ DOMAIN emitted[1]["renderedFiles"] = {}

\* C10: a finished invocation has status 0 exactly when its input decoded,
\* whatever the number of errors; otherwise the status is 1 and the message
\* holds exactly one error and an empty renderedFiles.
C10_StatusConvention ==
    Finished =>
      /\ Len(emitted) = 1
      /\ status = <<0>> <=> ~Undecodable
      /\ status # <<0>> =>
            /\ status = <<1>>
            /\ DOMAIN emitted[1]["renderedFiles"] = {}
            /\ Len(FieldOr(emitted[1], "errors", <<>>)) = 1

C10_Witness ==
    /\ GtDone
    /\ Len(output.errors) >= 2
    /\ emitted[1]["errors"] = output.errors
    /\ DOMAIN emitted[1]["renderedFiles"] # {}

\* sf[j] is a partial file whose text does not parse.
FailingPartial(sf, j) == IsPartial(sf[j]) /\ ParseTrees(sf[j].name, sf[j].data).err

\* The error entries of the first pass: one per failing partial file, in order.
RECURSIVE PartialErrors(_)
PartialErrors(sf) ==
    IF sf = <<>> THEN <<>>
    ELSE (IF FailingPartial(sf, 1) THEN <<ErrMsg("parse error", sf[1].name)>> ELSE <<>>)
             \o PartialErrors(Tail(sf))

\* C11: when a partial file fails to parse, the first pass records one
\* "parse error" entry for it and the namespace is the one the other files
\* alone would give: every other partial file that parses, before and after
\* it, is registered with its fragments, and a primary file that invokes such
\* a fragment is rendered.
C11_PartialFailureIsIsolated ==
    (Gt /\ (pc = "pass2" \/ GtDone)) =>
      \A j \in 1..Len(input.sourceFiles) :
          FailingPartial(input.sourceFiles, j) =>
              LET sf == input.sourceFiles
                  n == Len(PartialErrors(sf))
              IN  /\ Len(output.errors) >= n
                  /\ SubSeq(output.errors, 1, n) = PartialErrors(sf)
                  /\ Cardinality({e \in 1..n : output.errors[e].file = sf[j].name})
                        = Cardinality({m \in 1..Len(sf) :
                                          FailingPartial(sf, m) /\ sf[m].name = sf[j].name})
                  /\ masterTmpl = Pass1From(EmptyMap, NewOutput, RemoveAt(sf, j)).tmpl
                  /\ \A m \in 1..Len(sf) :
                        (IsPartial(sf[m]) /\ ~FailingPartial(sf, m)) =>
                            /\ sf[m].name \in DOMAIN masterTmpl
                            /\ \A d \in 1..Len(sf[m].data.defines) :
                                  sf[m].data.defines[d].name \in DOMAIN masterTmpl
                  /\ GtDone =>
                        \A k \in 1..Len(sf) :
                            (UsesX(sf[k]) /\ \E m \in 1..Len(sf) : PartialX(sf, m))
                                => sf[k].name \in DOMAIN output.renderedFiles

C11_Witness ==
    /\ GtDone /\ Len(input.sourceFiles) = 3
    /\ FailingPartial(input.sourceFiles, 2)
    /\ PartialX(input.sourceFiles, 1) /\ PartialX(input.sourceFiles, 3)
    /\ output.errors = <<ErrMsg("parse error", input.sourceFiles[2].name)>>
    /\ {FragX, input.sourceFiles[1].name, input.sourceFiles[3].name} \subseteq DOMAIN masterTmpl

RecognizedExtensions == {Ext_yaml, Ext_yml, Ext_tpl, Ext_txt}

UnderscoreBase(name) == Base(name) # <<>> /\ Head(Base(name)) = "_"

RecognizedName(name) == \E e \in RecognizedExtensions : HasSuffix(name, e)

XOnlyInPrimary(sf) ==
    /\ \E k \in 1..Len(sf) : IsPrimary(sf[k]) /\ sf[k].data.syntaxOK /\ DefinesX(sf[k])
    /\ \A k \in 1..Len(sf) : IsPartial(sf[k]) => ~DefinesX(sf[k])

\* C13: no step of the second pass changes the shared namespace, which holds
\* the names registered by the partial files and nothing else; a primary
\* file that invokes a fragment defined only inside another primary file
\* fails with a render error, before as well as after that other file.
C13_NamespaceReadOnlyInPass2 ==
    [][(Gt /\ pc = "pass2") =>
          /\ masterTmpl' = masterTmpl
          /\ DOMAIN masterTmpl' = RegisteredNames(input.sourceFiles)
          /\ (idx <= Len(input.sourceFiles) /\ UsesX(input.sourceFiles[idx])
                /\ XOnlyInPrimary(input.sourceFiles)) =>
                output' = [output EXCEPT !.errors =
                              Append(@, ErrMsg("render error", input.sourceFiles[idx].name))]]_vars

C13_Witness ==
    /\ Gt /\ pc = "pass2" /\ idx = 3
    /\ IsPrimary(input.sourceFiles[1]) /\ DefinesX(input.sourceFiles[1])
    /\ UsesX(input.sourceFiles[2])
    /\ DOMAIN output.renderedFiles = {input.sourceFiles[1].name}
    /\ output.errors = <<ErrMsg("render error", input.sourceFiles[2].name)>>
    /\ FragX \notin DOMAIN masterTmpl

\* The invocation has ended: HelmPluginMain returned, or the call trapped.
Ended == pc \in {"done", "trap"}

\* C14: nothing is written while an invocation runs; an invocation that has
\* ended has written exactly one message, and after a decoded input that
\* message was written when the loop had passed every source file.
C14_ExactlyOneOutput ==
    /\ ~Ended => emitted = <<>>
    /\ Ended =>
          /\ Len(emitted) = 1
          /\ ~Undecodable =>
                /\ idx = Len(input.sourceFiles) + 1
                /\ emitted[1] = Encode(output)

\* C15: an invocation that ends with the plugin and input of a remembered
\* earlier invocation of the same instance ends with the same status and
\* the same output message, whatever was invoked in between.
C15_NoStateAcrossInvocations ==
    (upstream # <<>> /\ Finished
        /\ upstream[1].plugin = plugin /\ upstream[1].input = input) =>
        /\ status = upstream[1].status
        /\ emitted = upstream[1].emitted

C15_Witness ==
    /\ Gt /\ Finished /\ upstream # <<>>
    /\ upstream[1].input = input /\ upstream[1].between
    /\ Len(input.sourceFiles) = 1 /\ UsesX(input.sourceFiles[1])
    /\ emitted = upstream[1].emitted /\ status = <<0>>
    /\ "errors" \in DOMAIN emitted[1]

\* sourcefiles-modifier has returned from an input that decoded.
MdDone == plugin = "sourcefiles-modifier" /\ Finished /\ ~Undecodable

\* The renderedFiles of sourcefiles-modifier and the counts of its summary.
SummaryIsExact ==
    /\ DOMAIN emitted[1]["renderedFiles"] = {SummaryName}
    /\ emitted[1]["renderedFiles"][SummaryName].filesReceived = Len(input.sourceFiles)
    /\ emitted[1]["renderedFiles"][SummaryName].filesOutput
          = Len(FieldOr(emitted[1], "modifiedSourceFiles", <<>>))

\* C16 as stated: renderedFiles is exactly the summary key, no file of
\* modifiedSourceFiles has that name, and the counts are the two lengths.
C16_SummaryIsIndependent_Original ==
    MdDone =>
        /\ SummaryIsExact
        /\ \A k \in 1..Len(emitted[1]["modifiedSourceFiles"]) :
              emitted[1]["modifiedSourceFiles"][k].name # SummaryName

\* C16 (amended): renderedFiles is exactly the summary key and the counts are
\* the two lengths; a file of modifiedSourceFiles has the summary's name only
\* when it is a received source file of that name passed on (second file, or
\* fourth and later), never the summary text itself.
C16_SummaryIsIndependent ==
    MdDone =>
        LET msf == emitted[1]["modifiedSourceFiles"]
            sf == input.sourceFiles
        IN  /\ SummaryIsExact
            /\ \A k \in 1..Len(msf) :
                  msf[k].name = SummaryName =>
                      /\ k < Len(msf)
                      /\ k # 2
                      /\ sf[k + 1].name = SummaryName
                      /\ msf[k].data = (IF k = 1 THEN ModifiedHeader \o sf[2].data
                                        ELSE sf[k + 1].data)
            /\ (\A k \in 1..Len(sf) : sf[k].name # SummaryName) =>
                  \A k \in 1..Len(msf) : msf[k].name # SummaryName

C16_Witness ==
    /\ MdDone /\ Len(input.sourceFiles) = 3
    /\ \A k \in 1..3 : input.sourceFiles[k].name # SummaryName
    /\ emitted[1]["renderedFiles"][SummaryName].filesReceived = 3
    /\ emitted[1]["renderedFiles"][SummaryName].filesOutput = 3
    /\ Len(emitted[1]["modifiedSourceFiles"]) = 3

\* What gotemplate-render's second pass makes of sf[k] on its own.
GtText(sf, k) ==
    LET ns == Pass1From(EmptyMap, NewOutput, sf).tmpl
        p == ParseInto(ns, sf[k].name, sf[k].data)
    IN  IF p.err THEN p ELSE Execute(p.ns, sf[k].data.root)

\* sf[k] is a primary file that renders text that is not blank.
GtRenders(sf, k) ==
    /\ IsPrimary(sf[k])
    /\ ~GtText(sf, k).err
    /\ TrimSpace(GtText(sf, k).out) # <<>>

\* The renderedFiles key and text test-processor gives a file.
TpKey(file) == TrimSuffix(file.name, Ext_test) \o Ext_yaml

TpContent(file) == ProcessFile(NewOutput, <<>>, file).out.renderedFiles[TpKey(file)]

\* k is the last position of sf, after some earlier one, that satisfies W.
LastOfSeveral(sf, k, W(_)) ==
    /\ k \in 1..Len(sf) /\ W(k)
    /\ \E j \in 1..(k - 1) : W(j)
    /\ \A m \in (k + 1)..Len(sf) : ~W(m)

GtLastWins ==
    Gt => \A k \in 1..Len(input.sourceFiles) :
             LET sf == input.sourceFiles
                 W(j) == sf[j].name = sf[k].name /\ GtRenders(sf, j)
             IN  LastOfSeveral(sf, k, W) =>
                     emitted[1]["renderedFiles"][sf[k].name] = GtText(sf, k).out

FbLastWins ==
    plugin = "globally-installed-fallback" =>
        LET sf == input.sourceFiles
        IN  /\ Len(sf) = 0 => emitted[1]["renderedFiles"] = EmptyMap
            /\ Len(sf) > 0 =>
                  /\ DOMAIN emitted[1]["renderedFiles"] = {FallbackName}
                  /\ emitted[1]["renderedFiles"][FallbackName] = FallbackContent(sf[Len(sf)])

\* C18 as stated: of several source files that produce the same key, the
\* entry kept is that of the last one in input order, in gotemplate-render,
\* globally-installed-fallback and test-processor.
C18_LastWriteWins_Original ==
    (Finished /\ ~Undecodable) =>
        /\ GtLastWins
        /\ FbLastWins
        /\ plugin = "test-processor" =>
              \A k \in 1..Len(input.sourceFiles) :
                  LET sf == input.sourceFiles
                      W(j) == TpKey(sf[j]) = TpKey(sf[k])
                  IN  LastOfSeveral(sf, k, W) =>
                          emitted[1]["renderedFiles"][TpKey(sf[k])] = TpContent(sf[k])

\* C18 (amended): as above, except that in test-processor the key
\* test-processor-summary.yaml always holds the summary, which is written
\* after the loop, also when source files map to that key.
C18_LastWriteWins ==
    (Finished /\ ~Undecodable) =>
        /\ GtLastWins
        /\ FbLastWins
        /\ plugin = "test-processor" =>
              LET sf == input.sourceFiles
              IN  /\ \A k \in 1..Len(sf) :
                        LET W(j) == TpKey(sf[j]) = TpKey(sf[k])
                        IN  (LastOfSeveral(sf, k, W) /\ TpKey(sf[k]) # TpSummaryName) =>
                                emitted[1]["renderedFiles"][TpKey(sf[k])] = TpContent(sf[k])
                  /\ emitted[1]["renderedFiles"][TpSummaryName]
                        = [filesReceived |-> Len(sf),
                           fileList |-> [k \in 1..Len(sf) |-> sf[k].name]]

C18_Witness ==
    /\ plugin = "test-processor" /\ Finished /\ Len(input.sourceFiles) = 3
    /\ input.sourceFiles[1].name # input.sourceFiles[3].name
    /\ TpKey(input.sourceFiles[1]) = TpKey(input.sourceFiles[3])
    /\ TpKey(input.sourceFiles[1]) # TpSummaryName
    /\ TpContent(input.sourceFiles[1]) # TpContent(input.sourceFiles[3])
    /\ emitted[1]["renderedFiles"][TpKey(input.sourceFiles[1])] = TpContent(input.sourceFiles[3])
    /\ Cardinality(DOMAIN emitted[1]["renderedFiles"]) = 3

\* The error entries of the second pass over the first n files of sf: one
\* per primary file whose parse or execution fails, in order.
RECURSIVE PrimaryErrors(_, _)
PrimaryErrors(sf, n) ==
    IF n = 0 THEN <<>>
    ELSE PrimaryErrors(sf, n - 1)
            \o (IF IsPrimary(sf[n]) /\ GtText(sf, n).err
                THEN <<ErrMsg(IF ParseTrees(sf[n].name, sf[n].data).err
                              THEN "parse error" ELSE "render error", sf[n].name)>>
                ELSE <<>>)

\* C19: at every point of an invocation errors is the entries of the failing
\* partial files passed so far, in input order, followed by those of the
\* failing primary files passed so far, in input order: one entry per
\* failing file, each later state extending the earlier sequence; the
\* message written carries that sequence.
C19_ErrorsAccumulateInOrder ==
    (Gt /\ ~Undecodable /\ pc # "start") =>
        LET sf == input.sourceFiles
        IN  /\ pc = "pass1" => output.errors = PartialErrors(SubSeq(sf, 1, idx - 1))
            /\ pc = "pass2" =>
                  output.errors = PartialErrors(sf) \o PrimaryErrors(sf, idx - 1)
            /\ Finished =>
                  /\ output.errors = PartialErrors(sf) \o PrimaryErrors(sf, Len(sf))
                  /\ FieldOr(emitted[1], "errors", <<>>) = output.errors
                  /\ Len(output.errors)
                        = Cardinality({k \in 1..Len(sf) :
                              FailingPartial(sf, k) \/ FailingPrimary(sf, k)})

C19_Witness ==
    /\ GtDone /\ Len(input.sourceFiles) = 3
    /\ FailingPrimary(input.sourceFiles, 1)
    /\ FailingPartial(input.sourceFiles, 2)
    /\ FailingPrimary(input.sourceFiles, 3)
    /\ input.sourceFiles[1].name # input.sourceFiles[3].name
    /\ emitted[1]["errors"] = <<ErrMsg("parse error", input.sourceFiles[2].name),
                                ErrMsg("parse error", input.sourceFiles[1].name),
                                ErrMsg("render error", input.sourceFiles[3].name)>>

Returned(fn) == plugin = "funcMap" /\ pc = "returned" /\ input.fn = fn

\* C20: default(def, val) returns def when val is nil or the empty string,
\* and val in every other case: a val of numeric zero, false, a blank
\* string, an empty sequence or an empty mapping is returned as it is.
C20_DefaultKeepsZero ==
    Returned("default") =>
        LET def == input.args[1]
            val == input.args[2]
        IN  /\ (val = NilVal \/ val = StrVal(<<>>)) => output = def
            /\ (val # NilVal /\ val # StrVal(<<>>)) => output = val
            /\ val = NumVal(0) => output = NumVal(0)

C20_Witness ==
    /\ Returned("default")
    /\ input.args = <<StrVal(<<"a">>), NumVal(0)>>
    /\ output = NumVal(0)

\* C21 as stated: default("", "fallback") is "fallback" and
\* default(0, "fallback") is 0.
C21_DefaultExamples_Original ==
    Returned("default") =>
        /\ input.args = <<StrVal(<<>>), Fallback>> => output = Fallback
        /\ input.args = <<NumVal(0), Fallback>> => output = NumVal(0)

\* C21 (amended): default("", "fallback") is "fallback"; default(0,
\* "fallback") is "fallback" too, because the second argument is the value
\* and it is not empty; it is default("fallback", 0) that is 0.
C21_DefaultExamples ==
    Returned("default") =>
        /\ input.args = <<StrVal(<<>>), Fallback>> => output = Fallback
        /\ input.args = <<NumVal(0), Fallback>> => output = Fallback
        /\ input.args = <<Fallback, NumVal(0)>> => output = NumVal(0)

C21_Witness ==
    /\ Returned("default")
    /\ input.args = <<NumVal(0), Fallback>>
    /\ output = Fallback

\* C22: required(msg, val) returns val when val is neither nil nor the empty
\* string; otherwise it fails with an error whose text is msg.
C22_RequiredCarriesMsg ==
    Returned("required") =>
        LET msg == input.args[1].v
            val == input.args[2]
        IN  IF val = NilVal \/ val = StrVal(<<>>)
            THEN output.err /\ output.msg = msg
            ELSE ~output.err /\ output.val = val

IsSequenceVal(val) == val.t \in {"list", "strlist"}

IsMappingVal(val) == val.t \in {"map", "strmap"}

\* The number of elements of a sequence, or of keys of a mapping.
Size(val) ==
    CASE val.t = "list" -> Len(val.items)
      [] val.t = "strlist" -> Len(val.strs)
      [] val.t = "map" -> Cardinality(DOMAIN val.m)
      [] val.t = "strmap" -> Cardinality(DOMAIN val.sm)

\* C23: empty(val) is true exactly when val is nil, the empty string, a
\* sequence of length 0 or a mapping without keys; it is false for numeric
\* zero and for false.
C23_EmptyIsExact ==
    Returned("empty") =>
        LET val == input.args[1]
        IN  output = BoolVal(\/ val = NilVal
                             \/ val = StrVal(<<>>)
                             \/ IsSequenceVal(val) /\ Size(val) = 0
                             \/ IsMappingVal(val) /\ Size(val) = 0)

\* The number of "\n" in s.
Newlines(s) == Cardinality({k \in 1..Len(s) : s[k] = "\n"})

\* C24: for n >= 0, indent(n, s) has the lines of s, in the same number: an
\* empty line stays empty and every other line is n spaces followed by the
\* line; nindent(n, s) is a newline followed by indent(n, s).
C24_IndentPrefixesLines ==
    (Returned("indent") /\ input.args[1] >= 0) =>
        LET n == input.args[1]
            old == SplitLines(input.args[2])
            new == SplitLines(output.indent.out)
        IN  /\ ~output.indent.err /\ ~output.nindent.err
            /\ Newlines(output.indent.out) = Newlines(input.args[2])
            /\ Len(new) = Len(old)
            /\ \A j \in 1..Len(old) :
                  IF old[j] = <<>> THEN new[j] = <<>>
                  ELSE /\ Len(new[j]) = n + Len(old[j])
                       /\ \A c \in 1..n : new[j][c] = " "
                       /\ SubSeq(new[j], n + 1, Len(new[j])) = old[j]
            /\ output.nindent.out = <<"\n">> \o output.indent.out

C24_Witness ==
    /\ Returned("indent")
    /\ input.args = <<2, <<"a", "\n", "\n", "b">>>>
    /\ output.indent.out = <<" ", " ", "a", "\n", "\n", " ", " ", "b">>
    /\ output.nindent.out = <<"\n", " ", " ", "a", "\n", "\n", " ", " ", "b">>

\* The pairs of vals: positions 2j-1 and 2j, both inside vals.
Pairs(vals) == 1..(Len(vals) \div 2)

\* The pairs of vals whose key is the string k.
PairsOf(vals, k) == {j \in Pairs(vals) : vals[2 * j - 1] = StrVal(k)}

\* C25: dict returns a mapping and never fails; its keys are the strings
\* that stand at the key position of a complete pair, each with the value of
\* the last such pair; pairs with another kind of key and a last argument
\* without partner add nothing.
C25_DictDropsMalformedPairs ==
    Returned("dict") =>
        LET vals == input.args
            m == output.dict.m
        IN  /\ output.dict.t = "map"
            /\ DOMAIN m = {vals[2 * j - 1].v : j \in {i \in Pairs(vals) : vals[2 * i - 1].t = "str"}}
            /\ \A k \in DOMAIN m :
                  \E j \in PairsOf(vals, k) :
                      /\ \A i \in PairsOf(vals, k) : i <= j
                      /\ m[k] = vals[2 * j]
            /\ output.empty = (DOMAIN m = {})

C25_Witness ==
    /\ Returned("dict")
    /\ input.args = <<StrVal(<<"a">>), NilVal, NumVal(0), StrVal(<<"a">>)>>
    /\ DOMAIN output.dict.m = {<<"a">>}

\* C26: for a sequence or mapping that is not empty, the text of toYaml is
\* not the JSON text of toPrettyJson.
C26_ToYamlIsNotJson ==
    (Returned("toYaml") /\ input.args[1].t \in {"list", "map"} /\ Size(input.args[1]) > 0) =>
        output.toYaml # output.toPrettyJson

\* The names of the files of s are pairwise distinct.
DistinctNames(s) == \A i, j \in 1..Len(s) : s[i].name = s[j].name => i = j

\* C27: when the names of the received sourceFiles are pairwise distinct,
\* so are the names of the modifiedSourceFiles sourcefiles-modifier returns.
C27_NamesStayDistinct ==
    (MdDone /\ DistinctNames(input.sourceFiles)) =>
        DistinctNames(emitted[1]["modifiedSourceFiles"])

\* name with a trailing .test replaced by .renamed, or with .renamed added.
Renamed(name) ==
    IF Len(name) >= 5 /\ SubSeq(name, Len(name) - 4, Len(name)) = Ext_test
    THEN SubSeq(name, 1, Len(name) - 5) \o Ext_renamed
    ELSE name \o Ext_renamed

\* C28: for n received files, also n = 0, 1, 2, modifiedSourceFiles has
\* max(n-1, 0) + 1 elements and ends with templates/file4.test; the element
\* at index 0 is not carried over: the elements before the last are those
\* of indices 1..n-1 in input order, index 1 with the header before its data,
\* index 2 renamed, the others as received.  The name of the first file is
\* the name of an output file only when another received file has or gets
\* that name, or when it is the name of the new file.
C28_ShapeForEveryLength ==
    MdDone =>
        LET sf == input.sourceFiles
            msf == emitted[1]["modifiedSourceFiles"]
            n == Len(sf)
        IN  /\ Len(msf) = (IF n - 1 > 0 THEN n - 1 ELSE 0) + 1
            /\ Len(msf) >= 1
            /\ msf[Len(msf)] = SourceFile(NewFileName, NewFileContent)
            /\ \A k \in 1..(Len(msf) - 1) :
                  /\ msf[k].name = (IF k = 2 THEN Renamed(sf[k + 1].name) ELSE sf[k + 1].name)
                  /\ msf[k].data = (IF k = 1 THEN ModifiedHeader \o sf[k + 1].data
                                    ELSE sf[k + 1].data)
            /\ (/\ n >= 1
                /\ sf[1].name # NewFileName
                /\ \A k \in 2..n : sf[k].name # sf[1].name
                /\ n >= 3 => Renamed(sf[3].name) # sf[1].name)
               => \A k \in 1..Len(msf) : msf[k].name # sf[1].name

C28_Witness ==
    /\ MdDone /\ Len(input.sourceFiles) = 1
    /\ input.sourceFiles[1].name # NewFileName
    /\ emitted[1]["modifiedSourceFiles"] = <<SourceFile(NewFileName, NewFileContent)>>

\* The larger and the smaller of two integers.
Max(a, b) == IF a >= b THEN a ELSE b

Min(a, b) == IF a <= b THEN a ELSE b

\* C29: for every combination of offset and limit values (absent, zero,
\* negative, not a number, beyond the result count) the search handler
\* completes with a response that holds at most limit packages taken from
\* position offset of the matches, and Pagination-Total-Count is the number
\* of matches before pagination; a kind filter other than 6 gives an empty
\* package list.  A negative value is read here as 0, a value that is not a
\* number as the 0 it parses to.
C29_SearchPaginates ==
    (plugin = "mock-artifacthub" /\ input.kind = "search") =>
        LET query == input.query
            offset == Max(IF query.offset = <<>> THEN 0 ELSE Atoi(query.offset), 0)
            limit == Max(IF query.limit = <<>> THEN 20 ELSE Atoi(query.limit), 0)
            count == Min(limit, Max(Len(output.results) - offset, 0))
        IN  /\ output.completed
            /\ IF query.kind \in {<<>>, <<"6">>}
               THEN /\ Len(output.packages) <= limit
                    /\ output.packages = [k \in 1..count |-> output.results[offset + k]]
                    /\ output.totalCount = <<Itoa(Len(output.results))>>
               ELSE output.packages = <<>>

\* The part of C29 that the handler keeps: when neither offset nor limit is
\* negative, the response is the page of the matches and the total count.
C29_NonNegativePages ==
    (/\ plugin = "mock-artifacthub" /\ input.kind = "search"
     /\ Atoi(input.query.offset) >= 0 /\ Atoi(input.query.limit) >= 0) => C29_SearchPaginates

\* A search with a negative offset ends in a panic, without a response.
C29_Witness ==
    /\ plugin = "mock-artifacthub" /\ input.kind = "search"
    /\ Atoi(input.query.offset) < 0
    /\ ~output.completed

\* C30: the plugin handler answers a path {repo}/{name} with the last
\* discovered version of the named plugin, a path {repo}/{name}/{version}
\* with exactly the package of that version, and answers not-found when the
\* plugin is unknown or has no versions, the version is absent, or the path
\* has fewer than two segments; the plugin table is left as it was.
C30_PluginLookup ==
    [][(plugin = "mock-artifacthub" /\ pc = "serve" /\ input'.kind = "plugin") =>
        LET parts == Split(TrimPrefix(input'.path, PluginPathPrefix), "/")
            known == /\ Len(parts) >= 2
                     /\ parts[2] \in DOMAIN actions
                     /\ Len(actions[parts[2]]) > 0
            versions == actions[parts[2]]
        IN  /\ actions' = actions
            /\ Len(parts) <= 3 =>
                 IF ~known THEN output'.code = 404
                 ELSE IF Len(parts) = 2
                      THEN output'.code = 200 /\ output'.pkg = <<versions[Len(versions)]>>
                 ELSE IF \E i \in 1..Len(versions) : versions[i].Version = parts[3]
                      THEN /\ output'.code = 200
                           /\ \E i \in 1..Len(versions) : output'.pkg = <<versions[i]>>
                           /\ output'.pkg[1].Version = parts[3]
                      ELSE output'.code = 404]_vars

\* A version that is not the last one of its plugin has been asked for and
\* served.
C30_Witness ==
    /\ plugin = "mock-artifacthub" /\ input.kind = "plugin"
    /\ output.code = 200
    /\ LET parts == Split(TrimPrefix(input.path, PluginPathPrefix), "/")
       IN  /\ Len(parts) = 3
           /\ Len(actions[parts[2]]) = 2
           /\ output.pkg = <<actions[parts[2]][1]>>

====
